---- MODULE Spec2Model ----
(***************************************************************************)
(* A model of crem: exact symbolic arithmetic over an expression tree      *)
(* (Operation) and the text-to-expression parser (parse_string).           *)
(*                                                                         *)
(* An expression is a record tagged by k: Number, Variable, Negation,      *)
(* Addition, Multiplication, Division.  A Rust panic is the value Panic,   *)
(* which every operator propagates (a panic unwinds through all callers).  *)
(* Scalars are the naturals; the scalar type's overflow is outside the     *)
(* model except where the parser converts a digit string to u32.           *)
(***************************************************************************)
EXTENDS Integers, Sequences, FiniteSets, TLC

(***************************************************************************)
(* Expression constructors (src/src/operation.rs, enum Operation)          *)
(***************************************************************************)
Panic == [k |-> "Panic"]

IsPanic(e) == e.k = "Panic"

Number(n) == [k |-> "Number", value |-> n]

Variable(name) == [k |-> "Variable", name |-> name]

AnyPanic(list) == \E i \in 1..Len(list) : IsPanic(list[i])

Negation(e) == IF IsPanic(e) THEN Panic ELSE [k |-> "Negation", value |-> e]

Addition(list) == IF AnyPanic(list) THEN Panic ELSE [k |-> "Addition", summands |-> list]

Multiplication(list) ==
    IF AnyPanic(list) THEN Panic ELSE [k |-> "Multiplication", multipliers |-> list]

Division(a, b) ==
    IF IsPanic(a) \/ IsPanic(b) THEN Panic
    ELSE [k |-> "Division", divident |-> a, divisor |-> b]

IsZero(e) == e.k = "Number" /\ e.value = 0

\* Vec::remove(i), 1-based
RemoveAt(list, i) == SubSeq(list, 1, i - 1) \o SubSeq(list, i + 1, Len(list))

(***************************************************************************)
(* Number (src/src/operation/number.rs)                                    *)
(***************************************************************************)
RECURSIVE EuclidLoop(_, _)
EuclidLoop(smaller, bigger) ==
    IF smaller = 0 THEN bigger ELSE EuclidLoop(bigger % smaller, smaller)

\* mutant: the reduction is skipped (the common divisor is taken to be 1)
greatest_common_divisor_unreduced(a, b) == 1

greatest_common_divisor(a, b) ==
    IF a < b THEN EuclidLoop(a, b) ELSE EuclidLoop(b, a)

\* Operation::from(value) of a scalar difference a - b in an unsigned type:
\* a smaller minuend overflows the subtraction, which panics.
FromDifference(a, b) == IF a < b THEN Panic ELSE Number(a - b)

NumberAdd(self, rhs) == Number(self.value + rhs.value)

NumberMul(self, rhs) == Number(self.value * rhs.value)

\* mutant: the pair is kept as written when the quotient is not whole
NumberDiv_unreduced(self, rhs) ==
    IF rhs.value = 0 THEN Panic
    ELSE IF self.value % rhs.value = 0 THEN Number(self.value \div rhs.value)
    ELSE Division(self, rhs)

NumberDiv(self, rhs) ==
    IF rhs.value = 0 THEN Panic \* remainder by zero
    ELSE IF self.value % rhs.value = 0 THEN Number(self.value \div rhs.value)
    ELSE LET gcd == greatest_common_divisor(self.value, rhs.value)
         IN  Division(Number(self.value \div gcd), Number(rhs.value \div gcd))

\* mutant: zero is wrapped like every other value
NumberNeg_wrapped(self) == Negation(self)

NumberNeg(self) == IF self.value = 0 THEN self ELSE Negation(self)

\* mutant: the comparison that orders the scalar subtraction is reversed
NumberSub_reversed(self, rhs) ==
    IF self.value > rhs.value
    THEN LET d == FromDifference(rhs.value, self.value)
         IN  IF IsPanic(d) THEN Panic ELSE NumberNeg(d)
    ELSE FromDifference(self.value, rhs.value)

NumberSub(self, rhs) ==
    IF self.value < rhs.value
    THEN LET d == FromDifference(rhs.value, self.value)
         IN  IF IsPanic(d) THEN Panic ELSE NumberNeg(d)
    ELSE FromDifference(self.value, rhs.value)

(***************************************************************************)
(* The generic operators and the per-shape operators they dispatch to are  *)
(* mutually recursive.                                                     *)
(***************************************************************************)
RECURSIVE OperationAdd(_, _), OperationSub(_, _), OperationMul(_, _),
          OperationDiv(_, _), OperationNeg(_), can_add_number_well(_),
          NegateAll(_), ScanInner(_, _, _, _, _), ScanOuter(_, _, _, _)

(***************************************************************************)
(* can_add_number_well (src/src/operation.rs and the six shapes)           *)
(***************************************************************************)
can_add_number_well(e) ==
    CASE e.k = "Addition" ->
            \E i \in 1..Len(e.summands) : can_add_number_well(e.summands[i])
      [] e.k = "Multiplication" -> FALSE
      [] e.k = "Division" ->
            IF e.divisor.k = "Number" THEN can_add_number_well(e.divident) ELSE FALSE
      [] e.k = "Negation" -> can_add_number_well(e.value)
      [] e.k = "Number" -> TRUE
      [] e.k = "Variable" -> FALSE

(***************************************************************************)
(* Negation (src/src/operation/negation.rs)                                *)
(***************************************************************************)
NegationAdd(self, rhs) == Negation(OperationAdd(self.value, rhs.value))

NegationDiv(self, rhs) == OperationDiv(self.value, rhs.value)

NegationMul(self, rhs) == OperationMul(self.value, rhs.value)

NegationSub(self, rhs) == OperationSub(rhs.value, self.value)

\* mutant: the Negation is kept instead of unwrapped
NegationNeg_kept(self) == self

NegationNeg(self) == self.value

(***************************************************************************)
(* Variable (src/src/operation/variable.rs)                                *)
(***************************************************************************)
VariableAdd(self, rhs) == Addition(<<self, rhs>>)

VariableMul(self, rhs) == Multiplication(<<self, rhs>>)

VariableDiv(self, rhs) == Division(self, rhs)

VariableNeg(self) == Negation(self)

VariableSub(self, rhs) ==
    IF self = rhs THEN Number(0) ELSE Addition(<<self, VariableNeg(rhs)>>)

(***************************************************************************)
(* Addition (src/src/operation/addition.rs)                                *)
(***************************************************************************)
FirstAddable(summands) ==
    LET hits == {i \in 1..Len(summands) : can_add_number_well(summands[i])}
    IN  IF hits = {} THEN 0 ELSE CHOOSE i \in hits : \A j \in hits : i <= j

\* mutant: the combined summand is put back where it stood
add_num_inplace(self, num) ==
    LET i == FirstAddable(self.summands)
    IN  IF i > 0
        THEN Addition([self.summands EXCEPT ![i] = OperationAdd(self.summands[i], num)])
        ELSE Addition(Append(self.summands, num))

add_num(self, num) ==
    LET i == FirstAddable(self.summands)
    IN  IF i > 0
        THEN LET added_summand == OperationAdd(self.summands[i], num)
             IN  Addition(Append(RemoveAt(self.summands, i), added_summand))
        ELSE Addition(Append(self.summands, num))

AdditionAdd(self, rhs) == Addition(self.summands \o rhs.summands)

AdditionMul(self, rhs) == Multiplication(<<self, rhs>>)

AdditionDiv(self, rhs) == Division(self, rhs)

NegateAll(list) ==
    IF list = <<>> THEN <<>>
    ELSE <<OperationNeg(Head(list))>> \o NegateAll(Tail(list))

AdditionSub(self, rhs) == Addition(self.summands \o NegateAll(rhs.summands))

AdditionNeg(self) == Negation(self)

(***************************************************************************)
(* Multiplication (src/src/operation/multiplication.rs)                    *)
(*                                                                         *)
(* The common-factor scan: for i in (0..self.len()).rev(), for j in        *)
(* (i..rhs.len()).rev(); both ranges are fixed when their loop starts, the *)
(* lists shrink inside.  Indices here are 1-based.  Reading                *)
(* self.multipliers[i] past the end of the shrunken list panics.           *)
(***************************************************************************)
ScanInner(self, rhs, both, i, j) ==
    IF j < i THEN [self |-> self, rhs |-> rhs, both |-> both, panic |-> FALSE]
    ELSE IF i > Len(self) \/ j > Len(rhs)
    THEN [self |-> self, rhs |-> rhs, both |-> both, panic |-> TRUE]
    ELSE IF self[i] = rhs[j]
    THEN ScanInner(RemoveAt(self, i), RemoveAt(rhs, j), Append(both, self[i]), i, j - 1)
    ELSE ScanInner(self, rhs, both, i, j - 1)

ScanOuter(self, rhs, both, i) ==
    IF i < 1 THEN [self |-> self, rhs |-> rhs, both |-> both, panic |-> FALSE]
    ELSE LET r == ScanInner(self, rhs, both, i, Len(rhs))
         IN  IF r.panic THEN r ELSE ScanOuter(r.self, r.rhs, r.both, i - 1)

CommonFactors(self, rhs) ==
    ScanOuter(self.multipliers, rhs.multipliers, <<>>, Len(self.multipliers))

MultiplicationNeg(self) == Negation(self)

MultiplicationAdd(self, rhs) ==
    LET r == CommonFactors(self, rhs)
    IN  IF r.panic THEN Panic
        ELSE IF r.both = <<>>
        THEN Addition(<<Multiplication(r.self), Multiplication(r.rhs)>>)
        ELSE Multiplication(Append(r.both,
                 Addition(<<Multiplication(r.self), Multiplication(r.rhs)>>)))

MultiplicationSub(self, rhs) ==
    LET r == CommonFactors(self, rhs)
    IN  IF r.panic THEN Panic
        ELSE IF r.both = <<>>
        THEN Addition(<<Multiplication(r.self), MultiplicationNeg(Multiplication(r.rhs))>>)
        ELSE Multiplication(Append(r.both,
                 Addition(<<Multiplication(r.self),
                            MultiplicationNeg(Multiplication(r.rhs))>>)))

MultiplicationMul(self, rhs) == Multiplication(self.multipliers \o rhs.multipliers)

MultiplicationDiv(self, rhs) ==
    LET r == CommonFactors(self, rhs)
    IN  IF r.panic THEN Panic
        ELSE Division(Multiplication(r.self), Multiplication(r.rhs))

(***************************************************************************)
(* Division (src/src/lib.rs, struct Division)                              *)
(***************************************************************************)
\* mutant: different denominators are not cross-multiplied
DivisionAdd_uncrossed(self, rhs) ==
    IF self.divisor = rhs.divisor
    THEN OperationDiv(OperationAdd(self.divident, rhs.divident), self.divisor)
    ELSE OperationDiv(OperationAdd(self.divident, rhs.divident),
                      OperationMul(self.divisor, rhs.divisor))

DivisionAdd(self, rhs) ==
    IF self.divisor = rhs.divisor
    THEN OperationDiv(OperationAdd(self.divident, rhs.divident), self.divisor)
    ELSE OperationDiv(
             OperationAdd(OperationMul(self.divident, rhs.divisor),
                          OperationMul(rhs.divident, self.divisor)),
             OperationMul(self.divisor, rhs.divisor))

DivisionMul(self, rhs) ==
    OperationDiv(OperationMul(self.divident, rhs.divident),
                 OperationMul(self.divisor, rhs.divisor))

DivisionDiv(self, rhs) ==
    OperationMul(self, OperationDiv(rhs.divisor, rhs.divident))

DivisionSub(self, rhs) ==
    IF self.divisor = rhs.divisor
    THEN OperationDiv(OperationSub(self.divident, rhs.divident), self.divisor)
    ELSE OperationDiv(
             OperationAdd(OperationMul(self.divident, rhs.divisor),
                          OperationMul(rhs.divident, self.divisor)),
             OperationMul(self.divisor, rhs.divisor))

DivisionNeg(self) == Negation(self)

(***************************************************************************)
(* Operation: the dispatcher (src/src/operation.rs).  The arms are tried   *)
(* in source order; the first that matches wins.                           *)
(***************************************************************************)
OperationNeg(self) ==
    CASE self.k = "Panic" -> Panic
      [] self.k = "Addition" -> AdditionNeg(self)
      [] self.k = "Multiplication" -> MultiplicationNeg(self)
      [] self.k = "Division" -> DivisionNeg(self)
      [] self.k = "Negation" -> NegationNeg(self)
      [] self.k = "Number" -> NumberNeg(self)
      [] self.k = "Variable" -> VariableNeg(self)

OperationAdd(self, rhs) ==
    IF IsPanic(self) \/ IsPanic(rhs) THEN Panic
    ELSE IF self.k = "Addition" /\ rhs.k = "Addition" THEN AdditionAdd(self, rhs)
    ELSE IF self.k = "Multiplication" /\ rhs.k = "Multiplication"
         THEN MultiplicationAdd(self, rhs)
    ELSE IF self.k = "Division" /\ rhs.k = "Division" THEN DivisionAdd(self, rhs)
    ELSE IF self.k = "Negation" /\ rhs.k = "Negation" THEN NegationAdd(self, rhs)
    ELSE IF self.k = "Number" /\ rhs.k = "Number" THEN NumberAdd(self, rhs)
    ELSE IF self.k = "Variable" /\ rhs.k = "Variable" THEN VariableAdd(self, rhs)
    ELSE IF IsZero(self) THEN rhs
    ELSE IF IsZero(rhs) THEN self
    ELSE IF self.k = "Number" /\ rhs.k = "Addition" THEN add_num(rhs, self)
    ELSE IF self.k = "Addition" /\ rhs.k = "Number" THEN add_num(self, rhs)
    ELSE IF self.k = "Negation" THEN OperationSub(rhs, self.value)
    ELSE IF rhs.k = "Negation" THEN OperationSub(self, rhs.value)
    ELSE IF self.k = "Addition" THEN Addition(Append(self.summands, rhs))
    ELSE IF rhs.k = "Addition" THEN Addition(Append(rhs.summands, self))
    ELSE IF self.k = "Division"
         THEN OperationDiv(OperationAdd(OperationMul(rhs, self.divisor), self.divident),
                           self.divisor)
    ELSE IF rhs.k = "Division"
         THEN OperationDiv(OperationAdd(OperationMul(self, rhs.divisor), rhs.divident),
                           rhs.divisor)
    ELSE Addition(<<self, rhs>>)

\* mutant: the divisor is not compared with zero
OperationDiv_unchecked(self, rhs) ==
    IF IsPanic(self) \/ IsPanic(rhs) THEN Panic
    ELSE IF self.k = "Addition" /\ rhs.k = "Addition" THEN AdditionDiv(self, rhs)
    ELSE IF self.k = "Multiplication" /\ rhs.k = "Multiplication"
         THEN MultiplicationDiv(self, rhs)
    ELSE IF self.k = "Division" /\ rhs.k = "Division" THEN DivisionDiv(self, rhs)
    ELSE IF self.k = "Negation" /\ rhs.k = "Negation" THEN NegationDiv(self, rhs)
    ELSE IF self.k = "Number" /\ rhs.k = "Number" THEN NumberDiv(self, rhs)
    ELSE IF self.k = "Variable" /\ rhs.k = "Variable" THEN VariableDiv(self, rhs)
    ELSE IF IsZero(self) THEN self
    ELSE IF self.k = "Negation" THEN OperationNeg(OperationDiv(self.value, rhs))
    ELSE IF rhs.k = "Negation" THEN OperationNeg(OperationDiv(self, rhs.value))
    ELSE IF rhs.k = "Division"
         THEN OperationMul(self, OperationDiv(rhs.divisor, rhs.divident))
    ELSE IF self.k = "Division"
         THEN OperationDiv(self.divident, OperationMul(self.divisor, rhs))
    ELSE Division(self, rhs)

OperationDiv(self, rhs) ==
    IF IsPanic(self) \/ IsPanic(rhs) THEN Panic
    ELSE IF self.k = "Addition" /\ rhs.k = "Addition" THEN AdditionDiv(self, rhs)
    ELSE IF self.k = "Multiplication" /\ rhs.k = "Multiplication"
         THEN MultiplicationDiv(self, rhs)
    ELSE IF self.k = "Division" /\ rhs.k = "Division" THEN DivisionDiv(self, rhs)
    ELSE IF self.k = "Negation" /\ rhs.k = "Negation" THEN NegationDiv(self, rhs)
    ELSE IF self.k = "Number" /\ rhs.k = "Number" THEN NumberDiv(self, rhs)
    ELSE IF self.k = "Variable" /\ rhs.k = "Variable" THEN VariableDiv(self, rhs)
    ELSE IF IsZero(rhs) THEN Panic \* "Cannot divide by zero."
    ELSE IF IsZero(self) THEN self
    ELSE IF self.k = "Negation" THEN OperationNeg(OperationDiv(self.value, rhs))
    ELSE IF rhs.k = "Negation" THEN OperationNeg(OperationDiv(self, rhs.value))
    ELSE IF rhs.k = "Division"
         THEN OperationMul(self, OperationDiv(rhs.divisor, rhs.divident))
    ELSE IF self.k = "Division"
         THEN OperationDiv(self.divident, OperationMul(self.divisor, rhs))
    ELSE Division(self, rhs)

\* mutant: a zero operand is treated like every other Number
OperationMul_unabsorbed(self, rhs) ==
    IF IsPanic(self) \/ IsPanic(rhs) THEN Panic
    ELSE IF self.k = "Addition" /\ rhs.k = "Addition" THEN AdditionMul(self, rhs)
    ELSE IF self.k = "Multiplication" /\ rhs.k = "Multiplication"
         THEN MultiplicationMul(self, rhs)
    ELSE IF self.k = "Division" /\ rhs.k = "Division" THEN DivisionMul(self, rhs)
    ELSE IF self.k = "Negation" /\ rhs.k = "Negation" THEN NegationMul(self, rhs)
    ELSE IF self.k = "Number" /\ rhs.k = "Number" THEN NumberMul(self, rhs)
    ELSE IF self.k = "Variable" /\ rhs.k = "Variable" THEN VariableMul(self, rhs)
    ELSE IF rhs.k = "Negation" THEN OperationNeg(OperationMul(self, rhs.value))
    ELSE IF self.k = "Negation" THEN OperationNeg(OperationMul(self.value, rhs))
    ELSE IF rhs.k = "Division"
         THEN OperationDiv(OperationMul(self, rhs.divident), rhs.divisor)
    ELSE IF self.k = "Division"
         THEN OperationDiv(OperationMul(rhs, self.divident), self.divisor)
    ELSE IF self.k = "Multiplication" THEN Multiplication(Append(self.multipliers, rhs))
    ELSE IF rhs.k = "Multiplication" THEN Multiplication(Append(rhs.multipliers, self))
    ELSE Multiplication(<<self, rhs>>)

OperationMul(self, rhs) ==
    IF IsPanic(self) \/ IsPanic(rhs) THEN Panic
    ELSE IF self.k = "Addition" /\ rhs.k = "Addition" THEN AdditionMul(self, rhs)
    ELSE IF self.k = "Multiplication" /\ rhs.k = "Multiplication"
         THEN MultiplicationMul(self, rhs)
    ELSE IF self.k = "Division" /\ rhs.k = "Division" THEN DivisionMul(self, rhs)
    ELSE IF self.k = "Negation" /\ rhs.k = "Negation" THEN NegationMul(self, rhs)
    ELSE IF self.k = "Number" /\ rhs.k = "Number" THEN NumberMul(self, rhs)
    ELSE IF self.k = "Variable" /\ rhs.k = "Variable" THEN VariableMul(self, rhs)
    ELSE IF IsZero(self) THEN self
    ELSE IF IsZero(rhs) THEN rhs
    ELSE IF rhs.k = "Negation" THEN OperationNeg(OperationMul(self, rhs.value))
    ELSE IF self.k = "Negation" THEN OperationNeg(OperationMul(self.value, rhs))
    ELSE IF rhs.k = "Division"
         THEN OperationDiv(OperationMul(self, rhs.divident), rhs.divisor)
    ELSE IF self.k = "Division"
         THEN OperationDiv(OperationMul(rhs, self.divident), self.divisor)
    ELSE IF self.k = "Multiplication" THEN Multiplication(Append(self.multipliers, rhs))
    ELSE IF rhs.k = "Multiplication" THEN Multiplication(Append(rhs.multipliers, self))
    ELSE Multiplication(<<self, rhs>>)

OperationSub(self, rhs) ==
    IF IsPanic(self) \/ IsPanic(rhs) THEN Panic
    ELSE IF self.k = "Addition" /\ rhs.k = "Addition" THEN AdditionSub(self, rhs)
    ELSE IF self.k = "Multiplication" /\ rhs.k = "Multiplication"
         THEN MultiplicationSub(self, rhs)
    ELSE IF self.k = "Division" /\ rhs.k = "Division" THEN DivisionSub(self, rhs)
    ELSE IF self.k = "Negation" /\ rhs.k = "Negation" THEN NegationSub(self, rhs)
    ELSE IF self.k = "Number" /\ rhs.k = "Number" THEN NumberSub(self, rhs)
    ELSE IF self.k = "Variable" /\ rhs.k = "Variable" THEN VariableSub(self, rhs)
    ELSE IF IsZero(self) THEN OperationNeg(rhs)
    ELSE IF IsZero(rhs) THEN self
    ELSE IF self.k = "Negation" THEN OperationNeg(OperationAdd(self.value, rhs))
    ELSE IF rhs.k = "Negation" THEN OperationAdd(self, rhs.value)
    ELSE Addition(<<self, Negation(rhs)>>)

\* Term::div(divident, divisor) (src/src/term.rs)
TermDiv(divident, divisor) == OperationDiv(Number(divident), Number(divisor))

(***************************************************************************)
(* set_vars: substitution, rebuilding through the generic operators.       *)
(* vars is the slice of (name, Operation) bindings.                        *)
(***************************************************************************)
RECURSIVE set_vars(_, _), AdditionSetVarsFold(_, _, _), MultiplicationSetVarsLoop(_, _, _, _)

\* src/src/operation/variable.rs: the first binding with the name, else a clone
VariableSetVars(self, vars) ==
    LET hits == {i \in 1..Len(vars) : vars[i][1] = self.name}
    IN  IF hits = {} THEN self
        ELSE vars[CHOOSE i \in hits : \A j \in hits : i <= j][2]

\* src/src/operation/addition.rs: fold(Operation::from(0), |acc, op| acc + op.set_vars(vars))
AdditionSetVarsFold(acc, summands, vars) ==
    IF summands = <<>> THEN acc
    ELSE AdditionSetVarsFold(OperationAdd(acc, set_vars(Head(summands), vars)),
                             Tail(summands), vars)

\* src/src/operation/multiplication.rs: result = m[0]; for i in 1..len: result * m[i]
MultiplicationSetVarsLoop(result, multipliers, i, vars) ==
    IF i > Len(multipliers) THEN result
    ELSE MultiplicationSetVarsLoop(OperationMul(result, set_vars(multipliers[i], vars)),
                                   multipliers, i + 1, vars)

set_vars(self, vars) ==
    CASE self.k = "Panic" -> Panic
      [] self.k = "Addition" -> AdditionSetVarsFold(Number(0), self.summands, vars)
      [] self.k = "Multiplication" ->
            IF self.multipliers = <<>> THEN Panic \* multipliers[0] out of bounds
            ELSE MultiplicationSetVarsLoop(set_vars(self.multipliers[1], vars),
                                           self.multipliers, 2, vars)
      [] self.k = "Division" ->
            OperationDiv(set_vars(self.divident, vars), set_vars(self.divisor, vars))
      [] self.k = "Negation" -> OperationNeg(set_vars(self.value, vars))
      [] self.k = "Number" -> self
      [] self.k = "Variable" -> VariableSetVars(self, vars)

(***************************************************************************)
(* calc.  The floating result is modelled by the exact rational it         *)
(* approximates: Rat(n, d) in lowest terms with d > 0.  A quotient by a    *)
(* zero value (inf / NaN in floating arithmetic) is NonFinite; a Variable  *)
(* panics.                                                                 *)
(***************************************************************************)
Abs(n) == IF n < 0 THEN 0 - n ELSE n

Rat(n, d) ==
    LET g == greatest_common_divisor(Abs(n), Abs(d))
        sgn == IF d < 0 THEN 0 - 1 ELSE 1
    IN  [k |-> "Rat", n |-> (sgn * n) \div g, d |-> (sgn * d) \div g]

CalcPanic == [k |-> "CalcPanic"]

NonFinite == [k |-> "NonFinite"]

RatAdd(a, b) ==
    IF a.k = "CalcPanic" \/ b.k = "CalcPanic" THEN CalcPanic
    ELSE IF a.k = "NonFinite" \/ b.k = "NonFinite" THEN NonFinite
    ELSE Rat(a.n * b.d + b.n * a.d, a.d * b.d)

RatMul(a, b) ==
    IF a.k = "CalcPanic" \/ b.k = "CalcPanic" THEN CalcPanic
    ELSE IF a.k = "NonFinite" \/ b.k = "NonFinite" THEN NonFinite
    ELSE Rat(a.n * b.n, a.d * b.d)

RatDiv(a, b) ==
    IF a.k = "CalcPanic" \/ b.k = "CalcPanic" THEN CalcPanic
    ELSE IF a.k = "NonFinite" \/ b.k = "NonFinite" THEN NonFinite
    ELSE IF b.n = 0 THEN NonFinite
    ELSE Rat(a.n * b.d, a.d * b.n)

RatNeg(a) == IF a.k = "Rat" THEN Rat(0 - a.n, a.d) ELSE a

RECURSIVE calc(_), AdditionCalcLoop(_, _, _), MultiplicationCalcLoop(_, _, _)

\* mutant: the summands behind the first are not evaluated
AdditionCalcLoop_first(result, summands, i) == result

\* src/src/operation/addition.rs: result = s[0].calc(); for i in 1..len: result + s[i].calc()
AdditionCalcLoop(result, summands, i) ==
    IF i > Len(summands) THEN result
    ELSE AdditionCalcLoop(RatAdd(result, calc(summands[i])), summands, i + 1)

\* src/src/operation/multiplication.rs
MultiplicationCalcLoop(result, multipliers, i) ==
    IF i > Len(multipliers) THEN result
    ELSE MultiplicationCalcLoop(RatMul(result, calc(multipliers[i])), multipliers, i + 1)

calc(self) ==
    CASE self.k = "Panic" -> CalcPanic
      [] self.k = "Addition" ->
            IF self.summands = <<>> THEN CalcPanic \* summands[0] out of bounds
            ELSE AdditionCalcLoop(calc(self.summands[1]), self.summands, 2)
      [] self.k = "Multiplication" ->
            IF self.multipliers = <<>> THEN CalcPanic \* multipliers[0] out of bounds
            ELSE MultiplicationCalcLoop(calc(self.multipliers[1]), self.multipliers, 2)
      [] self.k = "Division" -> RatDiv(calc(self.divident), calc(self.divisor))
      [] self.k = "Negation" -> RatNeg(calc(self.value))
      [] self.k = "Number" -> Rat(self.value, 1)
      [] self.k = "Variable" -> CalcPanic \* "Cannot calculate result of a term with variables."

\* an expression contains a Variable node somewhere
RECURSIVE HasVariable(_)
HasVariable(e) ==
    CASE e.k = "Variable" -> TRUE
      [] e.k = "Number" -> FALSE
      [] e.k = "Panic" -> FALSE
      [] e.k = "Negation" -> HasVariable(e.value)
      [] e.k = "Division" -> HasVariable(e.divident) \/ HasVariable(e.divisor)
      [] e.k = "Addition" -> \E i \in 1..Len(e.summands) : HasVariable(e.summands[i])
      [] e.k = "Multiplication" ->
            \E i \in 1..Len(e.multipliers) : HasVariable(e.multipliers[i])

(***************************************************************************)
(* State.  The registers hold expressions (Terms); every specification     *)
(* below uses the ones it needs and keeps the others at their initial      *)
(* value.                                                                  *)
(*   acc, arg   the two operand Terms a caller holds                       *)
(*   out        the Term returned by the last operator applied             *)
(*   accv, argv the same construction with a Number written for x          *)
(*   prev       the Term the caller held before a compound assignment      *)
(*   ghost      the caller's scalar inputs / the exact value expected      *)
(*   steps      how many operators the caller has applied                  *)
(*   pc         which call the caller made last                            *)
(*   input, pos, state, outputs, result   parse_to_flat's locals           *)
(***************************************************************************)
VARIABLES acc, arg, out, prev, accv, argv, ghost, steps, pc, input, pos, state, outputs, result

vars == <<acc, arg, out, prev, accv, argv, ghost, steps, pc, input, pos, state, outputs, result>>

algebraVars == <<acc, arg, out, prev, accv, argv, ghost, steps>>

parserVars == <<input, pos, state, outputs, result>>

ParserIdle ==
    /\ input = <<>>
    /\ pos = 0
    /\ state = [st |-> "Idle"]
    /\ outputs = <<>>
    /\ result = [k |-> "None"]

(***************************************************************************)
(* Bounds                                                                  *)
(***************************************************************************)
MaxScalar == 4

(***************************************************************************)
(* SpecRational: a caller builds two rationals with Term::div and applies  *)
(* one operator to them (tests/general.rs: test_division,                  *)
(* test_adding_divisions, test_multiplying_divisions, test_nested_...).    *)
(***************************************************************************)
RationalInit ==
    /\ ghost \in [a : 0..MaxScalar, b : 1..MaxScalar, c : 0..MaxScalar, d : 1..MaxScalar]
    /\ acc = Number(0)
    /\ arg = Number(0)
    /\ out = Number(0)
    /\ prev = Number(0)
    /\ steps = 0
    /\ accv = Number(0)
    /\ argv = Number(0)
    /\ pc = "new"
    /\ ParserIdle

\* let l = Term::div(a, b); let r = Term::div(c, d);
Build ==
    /\ pc = "new"
    /\ acc' = TermDiv(ghost.a, ghost.b)
    /\ arg' = TermDiv(ghost.c, ghost.d)
    /\ pc' = "built"
    /\ UNCHANGED <<out, prev, accv, argv, ghost, steps, parserVars>>

\* Term::div(a * d, b * d)
Rescale ==
    /\ pc = "built"
    /\ out' = TermDiv(ghost.a * ghost.d, ghost.b * ghost.d)
    /\ pc' = "scaled"
    /\ UNCHANGED <<acc, arg, prev, accv, argv, ghost, steps, parserVars>>

ApplyAdd ==
    /\ pc = "built"
    /\ out' = OperationAdd(acc, arg)
    /\ pc' = "add"
    /\ UNCHANGED <<acc, arg, prev, accv, argv, ghost, steps, parserVars>>

ApplySub ==
    /\ pc = "built"
    /\ out' = OperationSub(acc, arg)
    /\ pc' = "sub"
    /\ UNCHANGED <<acc, arg, prev, accv, argv, ghost, steps, parserVars>>

ApplyMul ==
    /\ pc = "built"
    /\ out' = OperationMul(acc, arg)
    /\ pc' = "mul"
    /\ UNCHANGED <<acc, arg, prev, accv, argv, ghost, steps, parserVars>>

ApplyDiv ==
    /\ pc = "built"
    /\ out' = OperationDiv(acc, arg)
    /\ pc' = "div"
    /\ UNCHANGED <<acc, arg, prev, accv, argv, ghost, steps, parserVars>>

RationalNext == Build \/ Rescale \/ ApplyAdd \/ ApplySub \/ ApplyMul \/ ApplyDiv

SpecRational == RationalInit /\ [][RationalNext]_vars

(***************************************************************************)
(* The canonical form of the exact non-negative rational n/d (d > 0),      *)
(* stated independently of the code: a Number when d divides n, otherwise  *)
(* the Division of the pair in lowest terms.                               *)
(***************************************************************************)
CommonDivisors(n, d) == {g \in 1..d : n % g = 0 /\ d % g = 0}

Largest(S) == CHOOSE g \in S : \A h \in S : h <= g

CanonicalRational(n, d) ==
    IF n % d = 0 THEN [k |-> "Number", value |-> n \div d]
    ELSE LET g == Largest(CommonDivisors(n, d))
         IN  [k |-> "Division",
              divident |-> [k |-> "Number", value |-> n \div g],
              divisor |-> [k |-> "Number", value |-> d \div g]]

\* C1: Term::div(a, b) is structurally equal to Term::div(a*c, b*c) for all
\* a >= 0 and b, c > 0 (the scale factor c is the caller's input d).
C1_DivScaleInvariant == pc = "scaled" => out = acc

C1_Witness ==
    /\ pc = "scaled"
    /\ ghost.d > 1
    /\ ghost.a > 0
    /\ out.k = "Division"
    /\ out.divident.value < ghost.a

\* C2: rational closure.  For l = a/b and r = c/d in canonical form, l + r,
\* l * r and l / r (r non-zero) are the canonical form of the exact result.
C2_RationalClosure ==
    /\ pc = "add" =>
          out = CanonicalRational(ghost.a * ghost.d + ghost.c * ghost.b, ghost.b * ghost.d)
    /\ pc = "mul" => out = CanonicalRational(ghost.a * ghost.c, ghost.b * ghost.d)
    /\ (pc = "div" /\ ghost.c # 0) =>
          out = CanonicalRational(ghost.a * ghost.d, ghost.b * ghost.c)

C2_Witness ==
    /\ pc = "add"
    /\ acc.k = "Division"
    /\ arg.k = "Division"
    /\ acc.divisor # arg.divisor
    /\ out.k = "Division"
    /\ out.divisor.value < acc.divisor.value * arg.divisor.value

\* C3: subtracting two Divisions a/B and c/D with structurally different
\* denominators gives (a*D - c*B) / (B*D) through the generic operators, and
\* its value is the exact rational difference.
C3_DivisionSubCrossMultiplies ==
    (pc = "sub" /\ acc.k = "Division" /\ arg.k = "Division" /\ acc.divisor # arg.divisor)
        => /\ out = OperationDiv(
                        OperationSub(OperationMul(acc.divident, arg.divisor),
                                     OperationMul(arg.divident, acc.divisor)),
                        OperationMul(acc.divisor, arg.divisor))
           /\ calc(out) = Rat(ghost.a * ghost.d - ghost.c * ghost.b, ghost.b * ghost.d)

(***************************************************************************)
(* SpecSigned: a caller holds a signed integer Term and keeps combining it *)
(* with signed integer operands through +=, -=, *= or with the operand on  *)
(* the left (tests/general.rs: test_addition, test_subtraction,            *)
(* test_assign).  ghost is the exact integer the Term stands for.          *)
(***************************************************************************)
MaxOperand == 3

MaxAbs == 12

\* Term::from(n) for n >= 0, -Term::from(-n) for n < 0
SignedTerm(n) == IF n >= 0 THEN Number(n) ELSE OperationNeg(Number(0 - n))

SignedInit ==
    /\ ghost \in (0 - MaxOperand)..MaxOperand
    /\ acc = SignedTerm(ghost)
    /\ arg = Number(0)
    /\ out = Number(0)
    /\ prev = Number(0)
    /\ steps = 0
    /\ accv = Number(0)
    /\ argv = Number(0)
    /\ pc = "new"
    /\ ParserIdle

\* a op= b (operand on the right) or a = b op a (operand on the left)
SignedAdd ==
    \E n \in (0 - MaxOperand)..MaxOperand, left \in BOOLEAN :
        /\ Abs(ghost + n) <= MaxAbs
        /\ arg' = SignedTerm(n)
        /\ prev' = acc
        /\ acc' = IF left THEN OperationAdd(arg', acc) ELSE OperationAdd(acc, arg')
        /\ ghost' = ghost + n
        /\ pc' = IF left THEN "add_left" ELSE "add_right"
        /\ UNCHANGED <<out, accv, argv, steps, parserVars>>

SignedSub ==
    \E n \in (0 - MaxOperand)..MaxOperand, left \in BOOLEAN :
        /\ Abs(ghost - n) <= MaxAbs
        /\ arg' = SignedTerm(n)
        /\ prev' = acc
        /\ acc' = IF left THEN OperationSub(arg', acc) ELSE OperationSub(acc, arg')
        /\ ghost' = IF left THEN n - ghost ELSE ghost - n
        /\ pc' = IF left THEN "sub_left" ELSE "sub_right"
        /\ UNCHANGED <<out, accv, argv, steps, parserVars>>

SignedMul ==
    \E n \in (0 - MaxOperand)..MaxOperand, left \in BOOLEAN :
        /\ Abs(ghost * n) <= MaxAbs
        /\ arg' = SignedTerm(n)
        /\ prev' = acc
        /\ acc' = IF left THEN OperationMul(arg', acc) ELSE OperationMul(acc, arg')
        /\ ghost' = ghost * n
        /\ pc' = IF left THEN "mul_left" ELSE "mul_right"
        /\ UNCHANGED <<out, accv, argv, steps, parserVars>>

SignedNext == SignedAdd \/ SignedSub \/ SignedMul

SpecSigned == SignedInit /\ [][SignedNext]_vars

\* the representation the claim prescribes for the integer r
SignedCanonical(r) ==
    IF r >= 0 THEN [k |-> "Number", value |-> r]
    ELSE [k |-> "Negation", value |-> [k |-> "Number", value |-> 0 - r]]

\* C4: signed-integer closure.  Any sequence of +, - and * over Number(n) and
\* Negation(Number(n)) yields Number(r) for an exact result r >= 0 and
\* Negation(Number(-r)) for r < 0; the scalar subtraction never underflows
\* (an underflow would make the Term Panic).
C4_SignedClosure == acc = SignedCanonical(ghost)

C4_Witness ==
    /\ pc = "sub_right"
    /\ prev.k = "Number"
    /\ arg.k = "Number"
    /\ prev.value < arg.value
    /\ acc.k = "Negation"

(***************************************************************************)
(* SpecAlgebra: a caller builds an expression from Numbers and the         *)
(* Variable x with at most MaxSteps of +, -, *, / and any number of neg,   *)
(* either operand first, holding two Terms (acc, arg); then it negates     *)
(* once or twice (tests/general.rs: test_negation), divides acc by arg,    *)
(* evaluates acc with calc or writes a Number for x with with_var.         *)
(* A panic aborts the caller: nothing is applied to a Panic Term.          *)
(***************************************************************************)
MaxLeaf == 2

MaxSteps == 2

\* what a caller starts from: Term::from(n) and Term::var("x")
Leaves == {Number(n) : n \in 0..MaxLeaf} \cup {Variable("x")}

\* the leaf with the Number v written for x
LeafWith(leaf, v) == IF leaf.k = "Variable" THEN Number(v) ELSE leaf

Running == ~IsPanic(acc) /\ pc = "build"

\* the caller applies at most MaxSteps operators
Small == steps < MaxSteps

AlgebraInit ==
    /\ acc \in Leaves
    /\ arg = Number(0)
    /\ out = Number(0)
    /\ prev = Number(0)
    /\ accv = Number(0)
    /\ argv = Number(0)
    /\ ghost = 0
    /\ steps = 0
    /\ pc = "build"
    /\ ParserIdle

\* Term::from(n)
LoadNumber ==
    \E n \in 0..MaxLeaf :
        /\ Running
        /\ arg' = Number(n)
        /\ UNCHANGED <<acc, out, prev, accv, argv, ghost, steps, pc, parserVars>>

\* Term::var("x")
LoadVariable ==
    /\ Running
    /\ arg' = Variable("x")
    /\ UNCHANGED <<acc, out, prev, accv, argv, ghost, steps, pc, parserVars>>

\* arg = acc.clone()
Copy ==
    /\ Running
    /\ arg' = acc
    /\ UNCHANGED <<acc, out, prev, accv, argv, ghost, steps, pc, parserVars>>

\* acc + arg or arg + acc
AlgAdd ==
    /\ Running /\ Small
    /\ \E left \in BOOLEAN :
          acc' = IF left THEN OperationAdd(arg, acc) ELSE OperationAdd(acc, arg)
    /\ steps' = steps + 1
    /\ UNCHANGED <<arg, out, prev, accv, argv, ghost, pc, parserVars>>

\* acc - arg or arg - acc
AlgSub ==
    /\ Running /\ Small
    /\ \E left \in BOOLEAN :
          acc' = IF left THEN OperationSub(arg, acc) ELSE OperationSub(acc, arg)
    /\ steps' = steps + 1
    /\ UNCHANGED <<arg, out, prev, accv, argv, ghost, pc, parserVars>>

\* acc * arg or arg * acc
AlgMul ==
    /\ Running /\ Small
    /\ \E left \in BOOLEAN :
          acc' = IF left THEN OperationMul(arg, acc) ELSE OperationMul(acc, arg)
    /\ steps' = steps + 1
    /\ UNCHANGED <<arg, out, prev, accv, argv, ghost, pc, parserVars>>

\* acc / arg or arg / acc
AlgDiv ==
    /\ Running /\ Small
    /\ \E left \in BOOLEAN :
          acc' = IF left THEN OperationDiv(arg, acc) ELSE OperationDiv(acc, arg)
    /\ steps' = steps + 1
    /\ UNCHANGED <<arg, out, prev, accv, argv, ghost, pc, parserVars>>

\* acc = -acc
AlgNeg ==
    /\ Running
    /\ acc' = OperationNeg(acc)
    /\ UNCHANGED <<arg, out, prev, accv, argv, ghost, steps, pc, parserVars>>

\* -acc
NegOnce ==
    /\ Running
    /\ out' = OperationNeg(acc)
    /\ pc' = "neg"
    /\ UNCHANGED <<acc, arg, prev, accv, argv, ghost, steps, parserVars>>

\* -(-acc)
NegTwice ==
    /\ Running
    /\ out' = OperationNeg(OperationNeg(acc))
    /\ pc' = "negneg"
    /\ UNCHANGED <<acc, arg, prev, accv, argv, ghost, steps, parserVars>>

\* acc / arg
Quotient ==
    /\ Running
    /\ out' = OperationDiv(acc, arg)
    /\ pc' = "div"
    /\ UNCHANGED <<acc, arg, prev, accv, argv, ghost, steps, parserVars>>

\* acc.calc()
Calc ==
    /\ Running
    /\ out' = calc(acc)
    /\ pc' = "calc"
    /\ UNCHANGED <<acc, arg, prev, accv, argv, ghost, steps, parserVars>>

\* acc.with_var("x", &arg), arg a Number the caller has just written
SetVars ==
    /\ Running
    /\ arg \in {Number(n) : n \in 0..MaxLeaf}
    /\ out' = set_vars(acc, <<<<"x", arg>>>>)
    /\ pc' = "set_vars"
    /\ UNCHANGED <<acc, arg, prev, accv, argv, ghost, steps, parserVars>>

AlgebraNext ==
    \/ LoadNumber \/ LoadVariable \/ Copy
    \/ AlgAdd \/ AlgSub \/ AlgMul \/ AlgDiv \/ AlgNeg
    \/ NegOnce \/ NegTwice \/ Quotient \/ Calc \/ SetVars

SpecAlgebra == AlgebraInit /\ [][AlgebraNext]_vars

\* C5: double negation cancels: neg(neg(x)) is structurally equal to x for
\* every expression x the operators produce, and neg(Number(0)) is Number(0).
C5_DoubleNegation ==
    /\ pc = "negneg" => out = acc
    /\ (pc = "neg" /\ acc = [k |-> "Number", value |-> 0]) =>
          out = [k |-> "Number", value |-> 0]

C5_Witness ==
    /\ pc = "negneg"
    /\ acc.k = "Negation"
    /\ acc.value.k = "Addition"
    /\ out = acc

(***************************************************************************)
(* SpecSubst: the caller of SpecAlgebra builds its expression twice in     *)
(* step: with the Variable x (acc, arg) and with the Number ghost written  *)
(* for x (accv, argv); then it substitutes ghost for x in the first        *)
(* (tests/general.rs: test_set_variable).                                  *)
(***************************************************************************)
BothRunning == Running /\ ~IsPanic(accv)

SubstInit ==
    /\ ghost \in 0..MaxLeaf
    /\ acc \in Leaves
    /\ arg = Number(0)
    /\ accv = LeafWith(acc, ghost)
    /\ argv = Number(0)
    /\ out = Number(0)
    /\ prev = Number(0)
    /\ steps = 0
    /\ pc = "build"
    /\ ParserIdle

\* Term::from(n), in both constructions
BothLoadNumber ==
    \E n \in 0..MaxLeaf :
        /\ BothRunning
        /\ arg' = Number(n)
        /\ argv' = Number(n)
        /\ UNCHANGED <<acc, accv, out, prev, ghost, steps, pc, parserVars>>

\* Term::var("x") in the one, Term::from(ghost) in the other
BothLoadVariable ==
    /\ BothRunning
    /\ arg' = Variable("x")
    /\ argv' = Number(ghost)
    /\ UNCHANGED <<acc, accv, out, prev, ghost, steps, pc, parserVars>>

BothCopy ==
    /\ BothRunning
    /\ arg' = acc
    /\ argv' = accv
    /\ UNCHANGED <<acc, accv, out, prev, ghost, steps, pc, parserVars>>

BothAdd ==
    /\ BothRunning /\ Small
    /\ \E left \in BOOLEAN :
          /\ acc' = IF left THEN OperationAdd(arg, acc) ELSE OperationAdd(acc, arg)
          /\ accv' = IF left THEN OperationAdd(argv, accv)
                            ELSE OperationAdd(accv, argv)
    /\ steps' = steps + 1
    /\ UNCHANGED <<arg, argv, out, prev, ghost, pc, parserVars>>

BothSub ==
    /\ BothRunning /\ Small
    /\ \E left \in BOOLEAN :
          /\ acc' = IF left THEN OperationSub(arg, acc) ELSE OperationSub(acc, arg)
          /\ accv' = IF left THEN OperationSub(argv, accv)
                            ELSE OperationSub(accv, argv)
    /\ steps' = steps + 1
    /\ UNCHANGED <<arg, argv, out, prev, ghost, pc, parserVars>>

BothMul ==
    /\ BothRunning /\ Small
    /\ \E left \in BOOLEAN :
          /\ acc' = IF left THEN OperationMul(arg, acc) ELSE OperationMul(acc, arg)
          /\ accv' = IF left THEN OperationMul(argv, accv)
                            ELSE OperationMul(accv, argv)
    /\ steps' = steps + 1
    /\ UNCHANGED <<arg, argv, out, prev, ghost, pc, parserVars>>

BothDiv ==
    /\ BothRunning /\ Small
    /\ \E left \in BOOLEAN :
          /\ acc' = IF left THEN OperationDiv(arg, acc) ELSE OperationDiv(acc, arg)
          /\ accv' = IF left THEN OperationDiv(argv, accv)
                            ELSE OperationDiv(accv, argv)
    /\ steps' = steps + 1
    /\ UNCHANGED <<arg, argv, out, prev, ghost, pc, parserVars>>

BothNeg ==
    /\ BothRunning
    /\ acc' = OperationNeg(acc)
    /\ accv' = OperationNeg(accv)
    /\ UNCHANGED <<arg, argv, out, prev, ghost, steps, pc, parserVars>>

\* acc.with_var("x", &Term::from(ghost))
Substitute ==
    /\ Running
    /\ out' = set_vars(acc, <<<<"x", Number(ghost)>>>>)
    /\ pc' = "set_vars"
    /\ UNCHANGED <<acc, arg, accv, argv, prev, ghost, steps, parserVars>>

SubstNext ==
    \/ BothLoadNumber \/ BothLoadVariable \/ BothCopy
    \/ BothAdd \/ BothSub \/ BothMul \/ BothDiv \/ BothNeg
    \/ Substitute

SpecSubst == SubstInit /\ [][SubstNext]_vars

\* C6: substitution commutes with construction: when the construction with
\* the Number v written for x is defined, set_vars(e, {x: v}) is variable-free
\* and its calc value equals that of the expression built directly with v.
C6_SubstitutionCommutes ==
    (pc = "set_vars" /\ ~IsPanic(accv))
        => /\ ~IsPanic(out)
           /\ ~HasVariable(out)
           /\ calc(out) = calc(accv)

(***************************************************************************)
(* The parser (src/src/parse_string.rs).  A string is a sequence of        *)
(* one-character strings.  A Term is its Operation.                        *)
(***************************************************************************)
Digits == <<"0", "1", "2", "3", "4", "5", "6", "7", "8", "9">>

IsDigit(ch) == \E i \in 1..Len(Digits) : Digits[i] = ch

DigitValue(ch) == (CHOOSE i \in 1..Len(Digits) : Digits[i] = ch) - 1

\* char::is_whitespace, over the characters the inputs are written in
is_whitespace(ch) == ch = " "

\* u32::MAX, digit by digit
U32MaxDigits == <<"4", "2", "9", "4", "9", "6", "7", "2", "9", "5">>

RECURSIVE StripZeros(_), DigitsLessEq(_, _, _), DigitsValue(_, _), Pow10(_)

StripZeros(buffer) ==
    IF buffer # <<>> /\ Head(buffer) = "0" THEN StripZeros(Tail(buffer))
    ELSE buffer

\* a <= b for two digit strings of the same length, compared from index i
DigitsLessEq(a, b, i) ==
    IF i > Len(a) THEN TRUE
    ELSE IF DigitValue(a[i]) < DigitValue(b[i]) THEN TRUE
    ELSE IF DigitValue(a[i]) > DigitValue(b[i]) THEN FALSE
    ELSE DigitsLessEq(a, b, i + 1)

DigitsValue(buffer, value) ==
    IF buffer = <<>> THEN value
    ELSE DigitsValue(Tail(buffer), value * 10 + DigitValue(Head(buffer)))

\* buffer.parse::<u32>(): Err(()) for the empty string and for a value
\* above u32::MAX, Ok(value) otherwise (the buffers hold digits only)
ParseU32(buffer) ==
    LET significant == StripZeros(buffer)
    IN  IF buffer = <<>> THEN [k |-> "Err"]
        ELSE IF Len(significant) > Len(U32MaxDigits) THEN [k |-> "Err"]
        ELSE IF /\ Len(significant) = Len(U32MaxDigits)
                /\ ~DigitsLessEq(significant, U32MaxDigits, 1)
             THEN [k |-> "Err"]
        ELSE [k |-> "Ok", value |-> DigitsValue(significant, 0)]

Pow10(n) == IF n = 0 THEN 1 ELSE 10 * Pow10(n - 1)

\* the items of the flat list: Ok(term) and Err(char)
OkItem(term) == [k |-> "Ok", term |-> term]

ErrItem(ch) == [k |-> "Err", char |-> ch]

\* the results of a call
NoResult == [k |-> "None"]

UnexpectedCharacter(ch) ==
    [k |-> "Err", error |-> "UnexpectedCharacter", char |-> ch]

UnexpectedEof == [k |-> "Err", error |-> "UnexpectedEof"]

OkTerm(term) == [k |-> "Ok", term |-> term]

\* the variants of States
Start == [st |-> "Start"]

PostTerm == [st |-> "PostTerm"]

PostOp == [st |-> "PostOp"]

PostMinus(prev_state) == [st |-> "PostMinus", prev |-> prev_state]

PreComma(buffer, positive) ==
    [st |-> "PreComma", buffer |-> buffer, positive |-> positive]

PostComma(pre, buffer, positive) ==
    [st |-> "PostComma", pre |-> pre, buffer |-> buffer,
     positive |-> positive]

Brackets(depth, buffer, positive) ==
    [st |-> "Brackets", depth |-> depth, buffer |-> buffer,
     positive |-> positive]

\* one turn of the loop leaves the locals and, on a return, the result
Continue(next_state, next_outputs) ==
    [state |-> next_state, outputs |-> next_outputs, result |-> NoResult]

Return(from_state, from_outputs, returned) ==
    [state |-> from_state, outputs |-> from_outputs, result |-> returned]

\* if positive { term } else { -term }
Signed(term, positive) == IF positive THEN term ELSE OperationNeg(term)

\* Term::from(parsed_buffer), signed; a panic if the buffer does not parse
PreCommaTerm(buffer, positive) ==
    LET parsed_buffer == ParseU32(buffer)
    IN  IF parsed_buffer.k = "Err" THEN Panic
        ELSE Signed(Number(parsed_buffer.value), positive)

\* Term::from(pre) + Term::div(parsed_buffer, 10u32.pow(buffer.len())),
\* signed; a panic if the buffer does not parse or the power overflows
\* (the overflow check of the test and debug builds; a build without
\* it wraps the power to 10^k mod 2^32 and goes on with that divisor)
PostCommaTerm(pre, buffer, positive) ==
    LET parsed_buffer == ParseU32(buffer)
    IN  IF parsed_buffer.k = "Err" THEN Panic
        ELSE IF Len(buffer) >= Len(U32MaxDigits) THEN Panic
        ELSE Signed(OperationAdd(Number(pre),
                                 TermDiv(parsed_buffer.value,
                                         Pow10(Len(buffer)))),
                    positive)

RECURSIVE parse_string(_), ParseLoop(_, _, _), FoldItems(_, _, _, _),
          FoldCombined(_, _, _, _, _), SumTerms(_, _)

\* mutant: no "*" is pushed between a literal and "("
AfterLiteral_unjoined(cur, term, outs, ch) ==
    IF IsPanic(term) THEN Return(cur, outs, Panic)
    ELSE IF ch = "(" THEN
        Continue(Brackets(1, <<>>, TRUE),
                 Append(outs, OkItem(term)))
    ELSE IF ch = "-" THEN
        Continue(PostMinus(PostTerm), Append(outs, OkItem(term)))
    ELSE IF ch \in {"+", "*", "/"} THEN
        Continue(PostOp, outs \o <<OkItem(term), ErrItem(ch)>>)
    ELSE \* whitespace
        Continue(PostTerm, Append(outs, OkItem(term)))

\* the literal that ends at ch is pushed, then ch is handled (the three
\* arms after a literal share this shape); a panic if it did not parse
AfterLiteral(cur, term, outs, ch) ==
    IF IsPanic(term) THEN Return(cur, outs, Panic)
    ELSE IF ch = "(" THEN
        Continue(Brackets(1, <<>>, TRUE),
                 outs \o <<OkItem(term), ErrItem("*")>>)
    ELSE IF ch = "-" THEN
        Continue(PostMinus(PostTerm), Append(outs, OkItem(term)))
    ELSE IF ch \in {"+", "*", "/"} THEN
        Continue(PostOp, outs \o <<OkItem(term), ErrItem(ch)>>)
    ELSE \* whitespace
        Continue(PostTerm, Append(outs, OkItem(term)))

StartStep(cur, outs, ch) ==
    IF IsDigit(ch) THEN Continue(PreComma(<<ch>>, TRUE), outs)
    ELSE IF ch = "." THEN Continue(PostComma(0, <<>>, TRUE), outs)
    ELSE IF ch \in {"+", "*", "/"} THEN
        Continue(PostOp, Append(outs, ErrItem(ch)))
    ELSE IF ch = "-" THEN Continue(PostMinus(Start), outs)
    ELSE IF ch = "(" THEN Continue(Brackets(1, <<>>, TRUE), outs)
    ELSE IF is_whitespace(ch) THEN Continue(cur, outs)
    ELSE Return(cur, outs, UnexpectedCharacter(ch))

\* mutant: a digit after a completed term is skipped like whitespace
PostTermStep_lenient(cur, outs, ch) ==
    IF ch \in {"+", "*", "/"} THEN
        Continue(PostOp, Append(outs, ErrItem(ch)))
    ELSE IF ch = "-" THEN Continue(PostMinus(PostTerm), outs)
    ELSE IF ch = "(" THEN
        Continue(Brackets(1, <<>>, TRUE), Append(outs, ErrItem("*")))
    ELSE IF is_whitespace(ch) \/ IsDigit(ch) THEN Continue(cur, outs)
    ELSE Return(cur, outs, UnexpectedCharacter(ch))

PostTermStep(cur, outs, ch) ==
    IF ch \in {"+", "*", "/"} THEN
        Continue(PostOp, Append(outs, ErrItem(ch)))
    ELSE IF ch = "-" THEN Continue(PostMinus(PostTerm), outs)
    ELSE IF ch = "(" THEN
        Continue(Brackets(1, <<>>, TRUE), Append(outs, ErrItem("*")))
    ELSE IF is_whitespace(ch) THEN Continue(cur, outs)
    ELSE Return(cur, outs, UnexpectedCharacter(ch))

PostOpStep(cur, outs, ch) ==
    IF IsDigit(ch) THEN Continue(PreComma(<<ch>>, TRUE), outs)
    ELSE IF ch = "." THEN Continue(PostComma(0, <<>>, TRUE), outs)
    ELSE IF ch = "-" THEN Continue(PostMinus(PostOp), outs)
    ELSE IF ch = "(" THEN Continue(Brackets(1, <<>>, TRUE), outs)
    ELSE IF is_whitespace(ch) THEN Continue(cur, outs)
    ELSE Return(cur, outs, UnexpectedCharacter(ch))

PreCommaStep(cur, outs, ch) ==
    IF ch = "." THEN
        LET parsed_buffer == ParseU32(cur.buffer)
        IN  IF parsed_buffer.k = "Err" THEN Return(cur, outs, Panic)
            ELSE Continue(PostComma(parsed_buffer.value, <<>>,
                                    cur.positive), outs)
    ELSE IF IsDigit(ch) THEN
        Continue(PreComma(Append(cur.buffer, ch), cur.positive), outs)
    ELSE IF ch \in {"(", "+", "-", "*", "/"} \/ is_whitespace(ch) THEN
        AfterLiteral(cur, PreCommaTerm(cur.buffer, cur.positive), outs, ch)
    ELSE Return(cur, outs, UnexpectedCharacter(ch))

PostCommaStep(cur, outs, ch) ==
    IF IsDigit(ch) THEN
        Continue(PostComma(cur.pre, Append(cur.buffer, ch),
                           cur.positive), outs)
    ELSE IF ch \in {"(", "+", "-", "*", "/"} \/ is_whitespace(ch) THEN
        AfterLiteral(cur,
                     PostCommaTerm(cur.pre, cur.buffer, cur.positive),
                     outs, ch)
    ELSE Return(cur, outs, UnexpectedCharacter(ch))

\* let term = parse_string(buffer.as_str())?; the term is pushed, signed
AfterBrackets(cur, outs, parsed) ==
    IF parsed.k = "Ok"
    THEN Continue(PostTerm,
                  Append(outs, OkItem(Signed(parsed.term, cur.positive))))
    ELSE Return(cur, outs, parsed)

\* mutant: every ")" closes the bracket
BracketsStep_shallow(cur, outs, ch) ==
    IF ch = "(" THEN
        Continue(Brackets(cur.depth + 1, Append(cur.buffer, "("),
                          cur.positive), outs)
    ELSE IF ch = ")" THEN AfterBrackets(cur, outs, parse_string(cur.buffer))
    ELSE Continue(Brackets(cur.depth, Append(cur.buffer, ch),
                           cur.positive), outs)

\* ")" at depth 1 parses the buffer with parse_string; its Err is returned
BracketsStep(cur, outs, ch) ==
    IF ch = "(" THEN
        Continue(Brackets(cur.depth + 1, Append(cur.buffer, "("),
                          cur.positive), outs)
    ELSE IF ch = ")" THEN
        IF cur.depth = 1
        THEN AfterBrackets(cur, outs, parse_string(cur.buffer))
        ELSE Continue(Brackets(cur.depth - 1, Append(cur.buffer, ")"),
                               cur.positive), outs)
    ELSE Continue(Brackets(cur.depth, Append(cur.buffer, ch),
                           cur.positive), outs)

\* mutant: no "+" is pushed between a term and the negated value after it
BeforeNegative_bare(prev_state, outs) == outs

\* a value starts after a minus: "+" is pushed first after a term
BeforeNegative(prev_state, outs) ==
    IF prev_state = PostTerm THEN Append(outs, ErrItem("+")) ELSE outs

\* mutant: the second minus of a pair is read as the first of a new run
SecondMinus_kept(cur, outs) ==
    IF cur.prev = PostTerm
    THEN Continue(PostMinus(PostOp), Append(outs, ErrItem("+")))
    ELSE Continue(cur, outs)

\* a minus after a minus: back to the cur before the pair; after a term
\* the pair is one "+"
SecondMinus(cur, outs) ==
    IF cur.prev = Start THEN Continue(Start, outs)
    ELSE IF cur.prev = PostOp THEN Continue(PostOp, outs)
    ELSE IF cur.prev = PostTerm
         THEN Continue(PostOp, Append(outs, ErrItem("+")))
    ELSE Return(cur, outs, Panic)

PostMinusStep(cur, outs, ch) ==
    IF ch = "-" THEN SecondMinus(cur, outs)
    ELSE IF IsDigit(ch) THEN
        Continue(PreComma(<<ch>>, FALSE), BeforeNegative(cur.prev, outs))
    ELSE IF ch = "." THEN
        Continue(PostComma(0, <<>>, FALSE),
                 BeforeNegative(cur.prev, outs))
    ELSE IF ch = "(" THEN
        Continue(Brackets(1, <<>>, FALSE),
                 BeforeNegative(cur.prev, outs))
    ELSE IF is_whitespace(ch) THEN Continue(cur, outs)
    ELSE Return(cur, outs, UnexpectedCharacter(ch))

\* one turn of the loop of parse_to_flat: match state, match char
Step(cur, outs, ch) ==
    CASE cur.st = "Start" -> StartStep(cur, outs, ch)
      [] cur.st = "PostTerm" -> PostTermStep(cur, outs, ch)
      [] cur.st = "PostOp" -> PostOpStep(cur, outs, ch)
      [] cur.st = "PreComma" -> PreCommaStep(cur, outs, ch)
      [] cur.st = "PostComma" -> PostCommaStep(cur, outs, ch)
      [] cur.st = "Brackets" -> BracketsStep(cur, outs, ch)
      [] cur.st = "PostMinus" -> PostMinusStep(cur, outs, ch)

\* the loop of parse_to_flat over value[i..], until a return
ParseLoop(ctx, value, i) ==
    IF ctx.result # NoResult \/ i > Len(value) THEN ctx
    ELSE ParseLoop(Step(ctx.state, ctx.outputs, value[i]), value, i + 1)

\* the literal the input ends with is pushed; a panic if it did not parse
LastLiteral(cur, term, outs) ==
    IF IsPanic(term) THEN Return(cur, outs, Panic)
    ELSE Continue(cur, Append(outs, OkItem(term)))

\* mutant: a pending operator at the end of the input is let through
EndOfInput_lenient(cur, outs) ==
    IF cur.st \in {"Brackets", "PostMinus", "Start"}
    THEN Return(cur, outs, UnexpectedEof)
    ELSE IF cur.st = "PostComma" THEN
        LastLiteral(cur, PostCommaTerm(cur.pre, cur.buffer, cur.positive),
                    outs)
    ELSE IF cur.st = "PreComma" THEN
        LastLiteral(cur, PreCommaTerm(cur.buffer, cur.positive), outs)
    ELSE Continue(cur, outs)

\* the match after the loop of parse_to_flat
EndOfInput(cur, outs) ==
    IF cur.st \in {"Brackets", "PostMinus", "PostOp", "Start"}
    THEN Return(cur, outs, UnexpectedEof)
    ELSE IF cur.st = "PostComma" THEN
        LastLiteral(cur, PostCommaTerm(cur.pre, cur.buffer, cur.positive),
                    outs)
    ELSE IF cur.st = "PreComma" THEN
        LastLiteral(cur, PreCommaTerm(cur.buffer, cur.positive), outs)
    ELSE Continue(cur, outs)

\* after the loop: what it returned, or the end-of-input match
AfterLoop(looped) ==
    IF looped.result # NoResult THEN looped
    ELSE EndOfInput(looped.state, looped.outputs)

\* result NoResult stands for Ok(outputs)
parse_to_flat(value) == AfterLoop(ParseLoop(Continue(Start, <<>>), value, 1))

\* the first fold of fold_flat (folded is its acc): operation is "Add",
\* "Mul" or "Div"; acc.len() - 1 on an empty acc underflows or indexes
\* out of bounds
FoldItems(flat, i, operation, folded) ==
    IF i > Len(flat) THEN [k |-> "Vec", terms |-> folded]
    ELSE LET item == flat[i]
             last_index == Len(folded)
         IN  IF item.k = "Ok" THEN
                 IF operation = "Add" THEN
                     FoldItems(flat, i + 1, operation,
                               Append(folded, item.term))
                 ELSE IF folded = <<>> THEN Panic
                 ELSE FoldCombined(
                          flat, i, operation, folded,
                          IF operation = "Mul"
                          THEN OperationMul(folded[last_index], item.term)
                          ELSE OperationDiv(folded[last_index], item.term))
             ELSE IF item.char = "+" THEN FoldItems(flat, i + 1, "Add", folded)
             ELSE IF item.char = "*" THEN FoldItems(flat, i + 1, "Mul", folded)
             ELSE IF item.char = "/" THEN FoldItems(flat, i + 1, "Div", folded)
             ELSE Panic

\* mutant: the product is pushed as a new term of the sum
FoldCombined_pushed(flat, i, operation, folded, combined) ==
    IF IsPanic(combined) THEN Panic
    ELSE FoldItems(flat, i + 1, operation, Append(folded, combined))

\* acc[last_index] *= term, acc[last_index] /= term: a panic of the operator
\* ends the call
FoldCombined(flat, i, operation, folded, combined) ==
    IF IsPanic(combined) THEN Panic
    ELSE FoldItems(flat, i + 1, operation,
                   [folded EXCEPT ![Len(folded)] = combined])

\* the second fold of fold_flat: folded + term from Term::from(0)
SumTerms(terms, sum) ==
    IF IsPanic(sum) \/ terms = <<>> THEN sum
    ELSE SumTerms(Tail(terms), OperationAdd(sum, Head(terms)))

SumFolded(folded) ==
    IF IsPanic(folded) THEN Panic ELSE SumTerms(folded.terms, Number(0))

fold_flat(flat) == SumFolded(FoldItems(flat, 1, "Add", <<>>))

\* Ok(term), unless the fold panicked
Folded(term) == IF IsPanic(term) THEN Panic ELSE OkTerm(term)

\* let flat = parse_to_flat(value)?; Ok(fold_flat(flat))
AfterFlat(parsed) ==
    IF parsed.result # NoResult THEN parsed.result
    ELSE Folded(fold_flat(parsed.outputs))

\* Ok(term), Err(error) or a panic
parse_string(value) == AfterFlat(parse_to_flat(value))

(***************************************************************************)
(* SpecParse: one call of parse_string(input), a turn of the loop of       *)
(* parse_to_flat at a time, then its end-of-input match, then fold_flat.   *)
(* The inputs are every string of at most MaxLen characters of Alphabet,   *)
(* the strings of Examples, and the strings of MinusInputs: a run of at    *)
(* most MaxRun minus signs and blanks in front of a value (a digit, a digit *)
(* in brackets, a decimal), at the start, after an operator and after a    *)
(* term.                                                                   *)
(*   input      the characters of value                                    *)
(*   pos        how many of them the loop has taken                        *)
(*   state      the local state of parse_to_flat                           *)
(*   outputs    the local outputs of parse_to_flat                         *)
(*   result     what the call returned, or a panic, or nothing yet         *)
(*   pc         "read" in the loop, "flat" before fold_flat, "done" after  *)
(*   ghost      how the input was put together                             *)
(***************************************************************************)
MaxLen == 4

MaxRun == 5

Alphabet == {"0", "3", ".", "+", "-", "*", "/", "(", ")", " ", "&"}

Strings == UNION {[1..n -> Alphabet] : n \in 0..MaxLen}

Examples ==
    { <<"3", " ", "&", " ", "4">>,
      <<"3", " ", "4">>,
      <<"3", " ", "+", " ", "*", " ", "2">>,
      <<"2", "(", "3", "+", "4", ")">>,
      <<"3", "(", "8", "-", "8", "/", "2", ")">>,
      <<"2", "(", "3", ")", "(", "4", ")">>,
      <<"2", " ", "(", "(", "3", ")", "4", ")">>,
      <<"2", "+", "3", "*", "4">>,
      <<"8", "-", "8", "/", "2">>,
      <<"8", "/", "2", "/", "2">>,
      <<"2", "*", "3", "+", "4", "/", "8", "*", "2">>,
      <<"1", ".", "5", "*", "2">>,
      <<"4", "2", "9", "4", "9", "6", "7", "2", "9", "6">>,
      <<"4", "2", "9", "4", "9", "6", "7", "2", "9", "6", "&">>,
      <<"0", ".", "1", " ", "+", " ", "0", ".", "2">>,
      <<"3", " ", "/", " ", "1", "0">>,
      <<"1", ".", "3", " ", "+", " ", "3", ".", "7">> }

MinusDigits == {"2", "8"}

\* the runs: at most MaxRun minus signs and blanks, one minus sign at least
Runs ==
    {r \in UNION {[1..n -> {"-", " "}] : n \in 1..MaxRun} :
        \E i \in 1..Len(r) : r[i] = "-"}

\* the values of these inputs: a digit, a digit in brackets, a decimal
Operands ==
    {[text |-> <<d>>, term |-> Number(DigitValue(d))] : d \in MinusDigits}
    \cup {[text |-> <<"(", d, ")">>, term |-> Number(DigitValue(d))] :
            d \in MinusDigits}
    \cup {[text |-> <<".", d>>, term |-> TermDiv(DigitValue(d), 10)] :
            d \in MinusDigits}

\* what stands in front of the run: nothing, a value and an operator, a value
Befores ==
    {[before |-> "start", text |-> <<>>, a |-> Number(0), op |-> "+"]}
    \cup {[before |-> "op", text |-> Append(a.text, op), a |-> a.term,
           op |-> op] : a \in Operands, op \in {"+", "*", "/"}}
    \cup {[before |-> "term", text |-> a.text, a |-> a.term, op |-> "+"] :
            a \in Operands}

\* the decimal literals: an integer part, a point and a fraction of at
\* most MaxFraction digits, and a fraction of ten digits whose value, one
\* tenth, fits the scalar
MaxFraction == 3

IntegerParts == {<<"0">>, <<"1">>, <<"1", "2">>}

Fractions == UNION {[1..n -> {"0", "2", "5"}] : n \in 1..MaxFraction}

LongFractions == {<<"1", "0", "0", "0", "0", "0", "0", "0", "0", "0">>}

DecimalInputs ==
    {[kind |-> "decimal", p |-> p, f |-> f, text |-> p \o <<".">> \o f] :
        p \in IntegerParts, f \in Fractions \cup LongFractions}

MinusInputs ==
    {[kind |-> "minus", before |-> f.before, a |-> f.a, op |-> f.op,
      run |-> r, b |-> v.term, text |-> f.text \o r \o v.text] :
        f \in Befores, r \in Runs, v \in Operands}

ParseInit ==
    /\ \/ /\ input \in Strings \cup Examples
          /\ ghost = [kind |-> "text"]
       \/ /\ ghost \in MinusInputs \cup DecimalInputs
          /\ input = ghost.text
    /\ pos = 0
    /\ state = Start
    /\ outputs = <<>>
    /\ result = NoResult
    /\ pc = "read"
    /\ acc = Number(0)
    /\ arg = Number(0)
    /\ out = Number(0)
    /\ prev = Number(0)
    /\ accv = Number(0)
    /\ argv = Number(0)
    /\ steps = 0

\* for char in value.chars() { match state { ... } }
ReadChar ==
    /\ pc = "read"
    /\ pos < Len(input)
    /\ \E next \in {Step(state, outputs, input[pos + 1])} :
           /\ state' = next.state
           /\ outputs' = next.outputs
           /\ result' = next.result
           /\ pc' = IF next.result = NoResult THEN "read" ELSE "done"
    /\ pos' = pos + 1
    /\ UNCHANGED <<input, algebraVars>>

\* match state { ... } after the loop
ReadEnd ==
    /\ pc = "read"
    /\ pos = Len(input)
    /\ \E next \in {EndOfInput(state, outputs)} :
           /\ state' = next.state
           /\ outputs' = next.outputs
           /\ result' = next.result
           /\ pc' = IF next.result = NoResult THEN "flat" ELSE "done"
    /\ UNCHANGED <<input, pos, algebraVars>>

\* Ok(fold_flat(flat))
Fold ==
    /\ pc = "flat"
    /\ result' = Folded(fold_flat(outputs))
    /\ pc' = "done"
    /\ UNCHANGED <<input, pos, state, outputs, algebraVars>>

ParseNext == ReadChar \/ ReadEnd \/ Fold

SpecParse == ParseInit /\ [][ParseNext]_vars

\* C7: parsing is total with typed failures: every call returns Ok(term),
\* Err(UnexpectedCharacter(c)) or Err(UnexpectedEof); it never aborts.
C7_ParseTotal ==
    pc = "done" =>
        \/ result.k = "Ok"
        \/ result = UnexpectedEof
        \/ result.k = "Err" /\ result.error = "UnexpectedCharacter"

\* C8: when the input ends while the parser is at the start (nothing but
\* whitespace read), inside an unclosed bracket, just behind a binary
\* operator or behind a run of minus signs with no value, the call returns
\* Err(UnexpectedEof).
C8_Step ==
    (/\ pc = "read"
     /\ pos = Len(input)
     /\ state.st \in {"Start", "Brackets", "PostOp", "PostMinus"})
        => (result' = UnexpectedEof /\ pc' = "done")

C8_UnexpectedEof == [][C8_Step]_vars

C8_Witness ==
    /\ pc = "done"
    /\ result = UnexpectedEof
    /\ state.st = "Brackets"
    /\ state.buffer # <<>>
    /\ pos = Len(input)

\* the characters of the claim that a state outside brackets does not
\* accept: a foreign character, ")", a digit or "." after a completed term,
\* an operator after an operator
Foreign(ch) ==
    /\ ~(\E i \in 1..Len(Digits) : Digits[i] = ch)
    /\ ch \notin {".", "+", "-", "*", "/", "(", ")", " "}

NotAccepted(st, ch) ==
    \/ Foreign(ch)
    \/ ch = ")"
    \/ st = "PostTerm" /\ ((\E i \in 1..Len(Digits) : Digits[i] = ch) \/ ch = ".")
    \/ st = "PostOp" /\ ch \in {"+", "*", "/"}

\* C9: outside brackets the first character the current state does not
\* accept makes the call return Err(UnexpectedCharacter(c)) with that
\* character, and the characters after it do not matter: the result is that
\* of the input cut off behind c.
C9_Step ==
    (/\ pc = "read"
     /\ pos < Len(input)
     /\ state.st # "Brackets"
     /\ NotAccepted(state.st, input[pos + 1]))
        => /\ result' = UnexpectedCharacter(input[pos + 1])
           /\ pc' = "done"
           /\ parse_string(input) = result'
           /\ parse_string(SubSeq(input, 1, pos + 1)) = result'

C9_UnexpectedCharacter == [][C9_Step]_vars

C9_Witness ==
    /\ pc = "done"
    /\ input = <<"3", " ", "4">>
    /\ pos = Len(input)
    /\ result = UnexpectedCharacter("4")

\* the number of minus signs of a run
RECURSIVE Minuses(_)

Minuses(run) ==
    IF run = <<>> THEN 0
    ELSE (IF Head(run) = "-" THEN 1 ELSE 0) + Minuses(Tail(run))

Odd(n) == n % 2 = 1

\* what the claim says "before run b" is: the value negated for an odd
\* run; a - b or a + b after the term a; a op (the value) after an operator
MinusExpected(g) ==
    LET a == g.a
        b == g.b
        n == Minuses(g.run)
        value == IF Odd(n) THEN OperationNeg(b) ELSE b
    IN  CASE g.before = "start" -> value
          [] g.before = "term" ->
                IF Odd(n) THEN OperationSub(a, b) ELSE OperationAdd(a, b)
          [] g.before = "op" /\ g.op = "+" -> OperationAdd(a, value)
          [] g.before = "op" /\ g.op = "*" -> OperationMul(a, value)
          [] g.before = "op" /\ g.op = "/" -> OperationDiv(a, value)

\* C10: unary-minus parity: a run of n >= 1 minus signs (blanks between
\* them allowed) in front of a value negates it iff n is odd; at the start
\* and after an operator it does nothing else; after a completed term a it
\* is also one addition: a - b for odd n, a + b for even n.
C10_MinusParity ==
    (pc = "done" /\ ghost.kind = "minus")
        => result = OkTerm(MinusExpected(ghost))

C10_Witness ==
    /\ pc = "done"
    /\ ghost.kind = "minus"
    /\ ghost.before = "term"
    /\ Minuses(ghost.run) = 3
    /\ Len(ghost.run) > 3
    /\ ghost.a.k = "Number"
    /\ ghost.b.k = "Number"
    /\ ghost.a.value < ghost.b.value
    /\ result.k = "Ok"
    /\ result.term.k = "Negation"

(***************************************************************************)
(* The fold as the specification words it: the token stream split at "+"   *)
(* into runs, each run folded left to right with * and /, the runs added   *)
(* from Number(0).                                                         *)
(***************************************************************************)
RECURSIVE SplitAtPlus(_, _, _), RunFold(_, _, _), SumRuns(_, _)

\* the runs of tokens between the "+" of the stream, in order
SplitAtPlus(tokens, run, runs) ==
    IF tokens = <<>> THEN Append(runs, run)
    ELSE IF Head(tokens).k = "Err" /\ Head(tokens).char = "+"
         THEN SplitAtPlus(Tail(tokens), <<>>, Append(runs, run))
    ELSE SplitAtPlus(Tail(tokens), Append(run, Head(tokens)), runs)

\* a run t1 op2 t2 op3 t3 ... from its i-th token on, value so far given
RunFold(run, i, value) ==
    IF IsPanic(value) \/ i > Len(run) THEN value
    ELSE RunFold(run, i + 2,
                 IF run[i].char = "*"
                 THEN OperationMul(value, run[i + 1].term)
                 ELSE OperationDiv(value, run[i + 1].term))

\* the runs added left to right; a run without tokens adds nothing
SumRuns(runs, sum) ==
    IF IsPanic(sum) \/ runs = <<>> THEN sum
    ELSE IF Head(runs) = <<>> THEN SumRuns(Tail(runs), sum)
    ELSE SumRuns(Tail(runs),
                 OperationAdd(sum, RunFold(Head(runs), 2,
                                           Head(runs)[1].term)))

\* C11: precedence by folding: a successful parse is structurally the token
\* stream split at each "+" into runs, every run folded left to right with
\* * and /, and the runs added left to right from Number(0).
C11_PrecedenceByFolding ==
    (pc = "done" /\ result.k = "Ok")
        => result.term = SumRuns(SplitAtPlus(outputs, <<>>, <<>>), Number(0))

C11_Witness ==
    /\ pc = "done"
    /\ input = <<"8", "-", "8", "/", "2">>
    /\ result = OkTerm(Number(4))
    /\ Len(outputs) = 5

RECURSIVE LastNonBlank(_, _)

\* the last character of text[1..i] that is not a blank, "" if there is none
LastNonBlank(text, i) ==
    IF i = 0 THEN ""
    ELSE IF text[i] = " " THEN LastNonBlank(text, i - 1)
    ELSE text[i]

\* "(" at i follows a completed term: a literal, directly or after blanks,
\* or a closing bracket
AfterCompletedTerm(text, i) ==
    /\ text[i] = "("
    /\ \/ \E d \in 1..Len(Digits) : Digits[d] = LastNonBlank(text, i - 1)
       \/ LastNonBlank(text, i - 1) = ")"

\* text with "*" written before its i-th character
WithStar(text, i) ==
    SubSeq(text, 1, i - 1) \o <<"*">> \o SubSeq(text, i, Len(text))

\* C12: implicit multiplication: where "(" follows a completed term (a
\* literal, directly or after whitespace, or a closing bracket), the parse
\* is that of the input with "*" written before the "(".
C12_ImplicitMultiplication ==
    pc = "done" =>
        \A i \in 1..Len(input) :
            AfterCompletedTerm(input, i)
                => /\ parse_string(WithStar(input, i)) = result
                   /\ parse_string(input) = result

C12_Witness ==
    /\ pc = "done"
    /\ input = <<"2", "(", "3", ")", "(", "4", ")">>
    /\ result = OkTerm(Number(24))
    /\ parse_string(<<"2", "*", "(", "3", ")", "*", "(", "4", ")">>) = result

(***************************************************************************)
(* Decimal literals.  The exact rational P + F/10^k of the literal P.F is  *)
(* stated from the digits: trailing zeros of F do not change it, so they  *)
(* are dropped before the numerator and the denominator are formed.       *)
(***************************************************************************)
RECURSIVE DropTrailingZeros(_)

DropTrailingZeros(digits) ==
    IF digits # <<>> /\ digits[Len(digits)] = "0"
    THEN DropTrailingZeros(SubSeq(digits, 1, Len(digits) - 1))
    ELSE digits

DecimalValue(p, f) ==
    LET fraction == DropTrailingZeros(f)
        scale == Pow10(Len(fraction))
    IN  CanonicalRational(DigitsValue(p, 0) * scale + DigitsValue(fraction, 0),
                          scale)

\* C13: a decimal literal P.F whose fraction has k >= 1 digits parses to
\* the canonical reduced form of the exact rational P + F/10^k; hence
\* "0.1 + 0.2" parses to what "3 / 10" parses to, and "1.3 + 3.7" parses to
\* Number(5).
C13_DecimalLiteral ==
    pc = "done" =>
        /\ ghost.kind = "decimal" =>
               result = OkTerm(DecimalValue(ghost.p, ghost.f))
        /\ input = <<"0", ".", "1", " ", "+", " ", "0", ".", "2">> =>
               /\ result.k = "Ok"
               /\ result = parse_string(<<"3", " ", "/", " ", "1", "0">>)
        /\ input = <<"1", ".", "3", " ", "+", " ", "3", ".", "7">> =>
               result = OkTerm(Number(5))

\* the same for the fractions of at most MaxFraction digits only
C13_ShortFractions ==
    pc = "done" =>
        /\ (ghost.kind = "decimal" /\ Len(ghost.f) <= MaxFraction) =>
               result = OkTerm(DecimalValue(ghost.p, ghost.f))
        /\ input = <<"0", ".", "1", " ", "+", " ", "0", ".", "2">> =>
               /\ result.k = "Ok"
               /\ result = parse_string(<<"3", " ", "/", " ", "1", "0">>)
        /\ input = <<"1", ".", "3", " ", "+", " ", "3", ".", "7">> =>
               result = OkTerm(Number(5))

(***************************************************************************)
(* Division by Number(0), checked on SpecAlgebra                           *)
(***************************************************************************)
RECURSIVE ZeroDenominator(_)

\* some Division node of the tree has the denominator Number(0)
ZeroDenominator(e) ==
    CASE e.k = "Division" ->
            \/ e.divisor = [k |-> "Number", value |-> 0]
            \/ ZeroDenominator(e.divident)
            \/ ZeroDenominator(e.divisor)
      [] e.k = "Negation" -> ZeroDenominator(e.value)
      [] e.k = "Addition" ->
            \E i \in 1..Len(e.summands) : ZeroDenominator(e.summands[i])
      [] e.k = "Multiplication" ->
            \E i \in 1..Len(e.multipliers) : ZeroDenominator(e.multipliers[i])
      [] OTHER -> FALSE

Shapes ==
    {"Number", "Variable", "Negation", "Addition", "Multiplication", "Division"}

\* C14: dividing by Number(0) is fatal for a dividend of every shape: the
\* operator / aborts and returns no expression; no Division whose
\* denominator is Number(0) is ever constructed.
C14_DivisionByZero ==
    /\ (pc = "div" /\ arg = [k |-> "Number", value |-> 0]) =>
          (acc.k \in Shapes /\ out = [k |-> "Panic"])
    /\ ~ZeroDenominator(acc)
    /\ ~ZeroDenominator(arg)
    /\ pc \in {"div", "neg", "negneg"} => ~ZeroDenominator(out)

C14_Witness ==
    /\ pc = "div"
    /\ acc.k = "Division"
    /\ acc.divident.k = "Variable"
    /\ arg = [k |-> "Number", value |-> 0]
    /\ out = [k |-> "Panic"]

\* C15: calc aborts on every expression that contains a Variable node
\* anywhere in its tree; no child of an Addition, Multiplication, Division
\* or Negation is skipped.
C15_CalcVisitsEveryNode ==
    (pc = "calc" /\ HasVariable(acc)) => out = [k |-> "CalcPanic"]

\* the Variable is behind a first child that has none
C15_Witness ==
    /\ pc = "calc"
    /\ acc.k = "Division"
    /\ acc.divident.k = "Number"
    /\ acc.divisor.k = "Addition"
    /\ ~HasVariable(acc.divisor.summands[1])
    /\ HasVariable(acc.divisor.summands[2])
    /\ out = [k |-> "CalcPanic"]

(***************************************************************************)
(* The fatal conditions, checked on the steps of SpecAlgebra               *)
(***************************************************************************)
\* C16: the only fatal conditions of the algebra are the two listed ones:
\* +, -, *, / and neg on operator-produced expressions abort only when the
\* operation is a division whose divisor is Number(0); calc aborts only when
\* it reaches a Variable and set_vars with a binding for a name that does not
\* occur aborts never.  This includes +, - and / of two Multiplications that
\* share or repeat factors, and calc and set_vars on their results.
C16_Step ==
    /\ (Running /\ acc' = [k |-> "Panic"]) =>
          /\ OperationAdd(acc, arg) # [k |-> "Panic"]
          /\ OperationAdd(arg, acc) # [k |-> "Panic"]
          /\ OperationSub(acc, arg) # [k |-> "Panic"]
          /\ OperationSub(arg, acc) # [k |-> "Panic"]
          /\ OperationMul(acc, arg) # [k |-> "Panic"]
          /\ OperationMul(arg, acc) # [k |-> "Panic"]
          /\ OperationNeg(acc) # [k |-> "Panic"]
          /\ OperationDiv(acc, arg) = [k |-> "Panic"] =>
                arg = [k |-> "Number", value |-> 0]
          /\ OperationDiv(arg, acc) = [k |-> "Panic"] =>
                acc = [k |-> "Number", value |-> 0]
    /\ (Running /\ pc' = "calc") =>
          /\ out' = [k |-> "CalcPanic"] => HasVariable(acc)
          /\ set_vars(acc, <<<<"y", [k |-> "Number", value |-> 1]>>>>)
                # [k |-> "Panic"]

C16_OnlyTwoFatalConditions == [][C16_Step]_vars

(***************************************************************************)
(* Structural invariants of the expressions.  Produced collects the trees *)
(* a state holds: the operands, what the last observed operator returned, *)
(* the terms of the parser's flat list and the parsed result.             *)
(***************************************************************************)
RECURSIVE Nodes(_)

\* the nodes of a tree
Nodes(e) ==
    {e} \cup
    CASE e.k = "Negation" -> Nodes(e.value)
      [] e.k = "Division" -> Nodes(e.divident) \cup Nodes(e.divisor)
      [] e.k = "Addition" ->
            UNION {Nodes(e.summands[i]) : i \in 1..Len(e.summands)}
      [] e.k = "Multiplication" ->
            UNION {Nodes(e.multipliers[i]) : i \in 1..Len(e.multipliers)}
      [] OTHER -> {}

Produced ==
    {acc, arg}
    \cup (IF pc \in {"neg", "negneg", "div", "set_vars"} THEN {out} ELSE {})
    \cup {outputs[i].term : i \in {j \in 1..Len(outputs) : outputs[j].k = "Ok"}}
    \cup (IF result.k = "Ok" THEN {result.term} ELSE {})

ProducedNodes == UNION {Nodes(e) : e \in Produced}

\* C17: no Negation node has a Negation as its child and no Negation node
\* has Number(0) as its child, in every expression produced by +, -, *, /,
\* neg, set_vars and parse from Numbers and Variables.
C17_NegationInvariant ==
    \A n \in ProducedNodes :
        n.k = "Negation" =>
            /\ n.value.k # "Negation"
            /\ n.value # [k |-> "Number", value |-> 0]

C17_Witness ==
    /\ pc = "set_vars"
    /\ acc = [k |-> "Negation", value |-> [k |-> "Variable", name |-> "x"]]
    /\ arg = [k |-> "Number", value |-> 0]
    /\ out = [k |-> "Number", value |-> 0]

\* C18: Addition flattening: no child of an Addition node is itself an
\* Addition, in every expression produced by +, -, *, /, neg and set_vars
\* (for example after (x + y) - z and after (x + y) + neg(z)).
C18_AdditionFlat ==
    \A n \in ProducedNodes :
        n.k = "Addition" =>
            \A i \in 1..Len(n.summands) : n.summands[i].k # "Addition"

\* C19: constant folding: every Addition node has at most one child that is
\* a bare Number, in every expression produced by +, -, *, /, neg and
\* set_vars (for example after (x + 3) + (y + 2)).
C19_OneNumberPerAddition ==
    \A n \in ProducedNodes :
        n.k = "Addition" =>
            Cardinality({i \in 1..Len(n.summands) :
                            n.summands[i].k = "Number"}) <= 1

\* C20: arity: every Addition node has at least 2 summands and every
\* Multiplication node has at least 2 multipliers, in every expression
\* produced by +, -, *, /, neg and set_vars (the remainders left after the
\* common factors of two Multiplications are removed included).
C20_Arity ==
    \A n \in ProducedNodes :
        /\ n.k = "Addition" => Len(n.summands) >= 2
        /\ n.k = "Multiplication" => Len(n.multipliers) >= 2

\* C21: Division invariant: no Division node has Number(0) as its
\* denominator, and every Division node whose two children are both Numbers
\* has coprime children and a denominator of 2 at least, in every expression
\* produced by +, -, *, /, neg, set_vars and parse.
C21_DivisionInvariant ==
    \A n \in ProducedNodes :
        n.k = "Division" =>
            /\ n.divisor # [k |-> "Number", value |-> 0]
            /\ (n.divident.k = "Number" /\ n.divisor.k = "Number") =>
                  /\ n.divisor.value >= 2
                  /\ CommonDivisors(n.divident.value, n.divisor.value) = {1}

\* a quotient of two Numbers that set_vars had to reduce
C21_Witness ==
    /\ pc = "set_vars"
    /\ acc.k = "Division"
    /\ acc.divident.k = "Variable"
    /\ acc.divisor.k = "Multiplication"
    /\ arg = [k |-> "Number", value |-> 2]
    /\ out = [k |-> "Division",
              divident |-> [k |-> "Number", value |-> 1],
              divisor |-> [k |-> "Number", value |-> 2]]

(***************************************************************************)
(* The operand shortcuts, checked on the operator steps of SpecAlgebra     *)
(***************************************************************************)
\* a Division, bare or negated
DivisionOperand(e) ==
    \/ e.k = "Division"
    \/ e.k = "Negation" /\ e.value.k = "Division"

\* no Division is a summand or a multiplier at the top of the result
NoDivisionInside(e) ==
    /\ e.k = "Addition" =>
          \A i \in 1..Len(e.summands) : ~DivisionOperand(e.summands[i])
    /\ e.k = "Multiplication" =>
          \A i \in 1..Len(e.multipliers) : ~DivisionOperand(e.multipliers[i])

\* C22: Division-operand shortcuts: for each of +, -, * and /, when exactly
\* one operand is a Division and the other has any other shape, the result
\* comes from cross-multiplication or reciprocal multiplication and not from
\* the generic fallback: no Division is a summand of an Addition or a
\* multiplier of a Multiplication the operation builds, bare or negated
\* (Number(1) - Division(1, 2) is a Division).
C22_Step ==
    (/\ Running
     /\ steps' = steps + 1
     /\ (acc.k = "Division") # (arg.k = "Division")
     /\ acc' # [k |-> "Panic"]) => NoDivisionInside(acc')

C22_DivisionShortcuts == [][C22_Step]_vars

(***************************************************************************)
(* Zero and one as operands, checked on every expression acc that          *)
(* SpecAlgebra reaches (every arg is a leaf or a copy of such an acc)      *)
(***************************************************************************)
ZeroShortcuts(x, zero) ==
    /\ OperationAdd(x, zero) = x
    /\ OperationAdd(zero, x) = x
    /\ OperationSub(x, zero) = x
    /\ OperationSub(zero, x) = OperationNeg(x)
    /\ OperationMul(x, zero) = zero
    /\ OperationMul(zero, x) = zero
    /\ x # zero => OperationDiv(zero, x) = zero

\* C23: zero shortcuts: for every expression x of any shape, x + Number(0),
\* Number(0) + x and x - Number(0) are structurally equal to x, Number(0) - x
\* equals neg(x), x * Number(0) and Number(0) * x are Number(0) (also when x
\* contains Variables), and Number(0) / x is Number(0) for every x other
\* than Number(0).
C23_ZeroShortcuts ==
    Running => ZeroShortcuts(acc, [k |-> "Number", value |-> 0])

\* Number(0) written for x in a sum of x and a product: set_vars adds
\* Number(0) and multiplies by it on the way
C23_Witness ==
    /\ pc = "set_vars"
    /\ arg = [k |-> "Number", value |-> 0]
    /\ acc.k = "Addition"
    /\ \E i \in 1..Len(acc.summands) : acc.summands[i].k = "Multiplication"
    /\ \E i \in 1..Len(acc.summands) : acc.summands[i].k = "Variable"
    /\ out = [k |-> "Number", value |-> 0]

OneIdentity(x, one) ==
    /\ OperationMul(x, one) = x
    /\ OperationMul(one, x) = x
    /\ OperationDiv(x, one) = x

\* C24: one is an identity: for every expression x of any shape (a Variable,
\* an Addition, a Multiplication, ...), x * Number(1), Number(1) * x and
\* x / Number(1) are structurally equal to x.
C24_OneIdentity ==
    Running => OneIdentity(acc, [k |-> "Number", value |-> 1])

\* C25: adding a Variable to a Variable of the same name degenerates to
\* 2*v: the result of v + v is the product of Number(2) and the Variable v.
C25_Step ==
    (/\ Running
     /\ acc.k = "Variable"
     /\ arg = acc
     /\ steps' = steps + 1
     /\ acc' = OperationAdd(acc, arg)) =>
        \/ acc' = [k |-> "Multiplication",
                   multipliers |-> <<[k |-> "Number", value |-> 2], acc>>]
        \/ acc' = [k |-> "Multiplication",
                   multipliers |-> <<acc, [k |-> "Number", value |-> 2]>>]

C25_VariableDoubling == [][C25_Step]_vars

(***************************************************************************)
(* SpecFactors: a caller builds two products, each from a leaf times at    *)
(* most MaxFactors - 1 further leaves written on either side, and then     *)
(* adds, subtracts or divides the two.                                     *)
(*   acc, arg   the two products                                           *)
(*   steps, ghost   the number of multiplications applied to acc, to arg   *)
(*   out        acc + arg, acc - arg or acc / arg                          *)
(***************************************************************************)
MaxFactors == 3

FactorLeaves == {Variable("x"), Variable("y"), Number(2), Number(3)}

FactorsInit ==
    /\ acc \in FactorLeaves
    /\ arg \in FactorLeaves
    /\ out = Number(0)
    /\ prev = Number(0)
    /\ accv = Number(0)
    /\ argv = Number(0)
    /\ ghost = 0
    /\ steps = 0
    /\ pc = "build"
    /\ ParserIdle

\* acc = acc * leaf or leaf * acc
TimesLeft ==
    /\ pc = "build"
    /\ steps < MaxFactors - 1
    /\ \E leaf \in FactorLeaves, left \in BOOLEAN :
          acc' = IF left THEN OperationMul(leaf, acc) ELSE OperationMul(acc, leaf)
    /\ steps' = steps + 1
    /\ UNCHANGED <<arg, out, prev, accv, argv, ghost, pc, parserVars>>

\* arg = arg * leaf or leaf * arg
TimesRight ==
    /\ pc = "build"
    /\ ghost < MaxFactors - 1
    /\ \E leaf \in FactorLeaves, left \in BOOLEAN :
          arg' = IF left THEN OperationMul(leaf, arg) ELSE OperationMul(arg, leaf)
    /\ ghost' = ghost + 1
    /\ UNCHANGED <<acc, out, prev, accv, argv, steps, pc, parserVars>>

\* acc + arg
Sum ==
    /\ pc = "build"
    /\ out' = OperationAdd(acc, arg)
    /\ pc' = "add"
    /\ UNCHANGED <<acc, arg, prev, accv, argv, ghost, steps, parserVars>>

\* acc - arg
Difference ==
    /\ pc = "build"
    /\ out' = OperationSub(acc, arg)
    /\ pc' = "sub"
    /\ UNCHANGED <<acc, arg, prev, accv, argv, ghost, steps, parserVars>>

\* acc / arg
Ratio ==
    /\ pc = "build"
    /\ out' = OperationDiv(acc, arg)
    /\ pc' = "div"
    /\ UNCHANGED <<acc, arg, prev, accv, argv, ghost, steps, parserVars>>

FactorsNext == TimesLeft \/ TimesRight \/ Sum \/ Difference \/ Ratio

SpecFactors == FactorsInit /\ [][FactorsNext]_vars

\* how often m stands in a list
Count(m, list) == Cardinality({i \in 1..Len(list) : list[i] = m})

Least(a, b) == IF a <= b THEN a ELSE b

\* the two remainders in what the operation returned: the summands of the
\* Addition (the second one negated by -), the children of the Division
Remainders(r) ==
    IF r.k = "Division" THEN <<r.divident.multipliers, r.divisor.multipliers>>
    ELSE LET sum == IF r.k = "Addition" THEN r
                    ELSE r.multipliers[Len(r.multipliers)]
             second == sum.summands[2]
         IN  <<sum.summands[1].multipliers,
               IF second.k = "Negation" THEN second.value.multipliers
               ELSE second.multipliers>>

\* the factors collected in front of the Addition
Collected(r) ==
    IF r.k = "Multiplication"
    THEN SubSeq(r.multipliers, 1, Len(r.multipliers) - 1)
    ELSE <<>>

\* C26: common-factor extraction: when two Multiplications are added or
\* subtracted, every multiplier that occurs in both lists is removed from
\* both and collected as a common factor, whatever its positions in the two
\* lists; when two Multiplications are divided, every such shared multiplier
\* is cancelled from both.
C26_CommonFactors ==
    (/\ pc \in {"add", "sub", "div"}
     /\ acc.k = "Multiplication"
     /\ arg.k = "Multiplication") =>
        /\ out # [k |-> "Panic"]
        /\ \A m \in FactorLeaves :
              LET shared == Least(Count(m, acc.multipliers),
                                  Count(m, arg.multipliers))
              IN  /\ Count(m, Remainders(out)[1]) =
                        Count(m, acc.multipliers) - shared
                  /\ Count(m, Remainders(out)[2]) =
                        Count(m, arg.multipliers) - shared
                  /\ pc # "div" => Count(m, Collected(out)) = shared

(***************************************************************************)
(* add_num, checked on the steps of SpecAlgebra that add a Number other    *)
(* than zero to an Addition                                                *)
(***************************************************************************)
\* the summands that can take a Number
Addable(summands) ==
    {i \in 1..Len(summands) : can_add_number_well(summands[i])}

AddNumPlaced(before, n, after) ==
    IF Addable(before) = {}
    THEN after = Append(before, n)
    ELSE \E i \in Addable(before) :
            /\ \A j \in Addable(before) : i <= j
            /\ Len(after) = Len(before)
            /\ \A j \in 1..(i - 1) : after[j] = before[j]
            /\ \A j \in i..(Len(before) - 1) : after[j] = before[j + 1]
            /\ after[Len(after)] = OperationAdd(before[i], n)

\* C27: constant placement in add_num(n): if some summand satisfies
\* can_add_number_well, the first such summand from the left is removed,
\* combined with n through the generic + and appended as the last summand,
\* the other summands keeping their order; otherwise n is appended as a new
\* last summand.  The number of summands stays or grows by one.
C27_Step ==
    (/\ Running
     /\ acc.k = "Addition"
     /\ arg.k = "Number"
     /\ arg.value # 0
     /\ steps' = steps + 1
     /\ acc' \in {OperationAdd(acc, arg), OperationAdd(arg, acc)}) =>
        /\ acc'.k = "Addition"
        /\ AddNumPlaced(acc.summands, arg, acc'.summands)
        /\ Len(acc'.summands) \in {Len(acc.summands), Len(acc.summands) + 1}

C28_Idempotence ==
    Running => set_vars(acc, <<>>) = acc

(***************************************************************************)
(* Bracket matching, checked on the steps of SpecParse inside brackets     *)
(***************************************************************************)
RECURSIVE Occurrences(_, _), MinusesBefore(_, _)

\* how often ch stands in a text
Occurrences(ch, text) ==
    IF text = <<>> THEN 0
    ELSE (IF Head(text) = ch THEN 1 ELSE 0) + Occurrences(ch, Tail(text))

\* the minus signs of the run of "-" and blanks that ends in front of
\* position i of a text
MinusesBefore(text, i) ==
    IF i <= 1 THEN 0
    ELSE IF text[i - 1] = "-" THEN 1 + MinusesBefore(text, i - 1)
    ELSE IF text[i - 1] = " " THEN MinusesBefore(text, i - 1)
    ELSE 0

\* the position of the "(" that opened the bracket the parser is in
Opening == pos - Len(state.buffer)

\* inside brackets: the buffer is the input behind the opening "(",
\* unchanged, the depth is 1 at least and counts the open brackets, and the
\* sign is negative exactly behind an odd run of minus signs
C29_Inside ==
    (pc = "read" /\ state.st = "Brackets") =>
        /\ state.depth >= 1
        /\ Opening >= 1
        /\ input[Opening] = "("
        /\ state.buffer = SubSeq(input, Opening + 1, pos)
        /\ state.depth = 1 + Occurrences("(", state.buffer)
                           - Occurrences(")", state.buffer)
        /\ state.positive = (MinusesBefore(input, Opening) % 2 = 0)

\* one character read inside brackets
C29_Step ==
    (pc = "read" /\ state.st = "Brackets" /\ pos' = pos + 1) =>
        LET ch == input[pos + 1]
        IN  IF ch = ")" /\ state.depth = 1
            THEN \E inner \in {parse_string(state.buffer)} :
                    IF inner.k = "Ok"
                    THEN /\ state'.st = "PostTerm"
                         /\ result' = [k |-> "None"]
                         /\ outputs' =
                               Append(outputs,
                                      [k |-> "Ok",
                                       term |-> IF state.positive
                                                THEN inner.term
                                                ELSE OperationNeg(inner.term)])
                    ELSE /\ result' = inner
                         /\ pc' = "done"
            ELSE /\ state'.st = "Brackets"
                 /\ state'.buffer = Append(state.buffer, ch)
                 /\ state'.positive = state.positive
                 /\ outputs' = outputs
                 /\ state'.depth =
                       IF ch = "(" THEN state.depth + 1
                       ELSE IF ch = ")" THEN state.depth - 1
                       ELSE state.depth

\* C29: bracket matching: while the parser is inside brackets its depth is
\* 1 at least, each "(" increments it and each ")" decrements it, and the
\* bracket closes exactly at the ")" met at depth 1; the text between the
\* opening "(" and that ")" is passed unchanged (inner blanks and nested
\* brackets included) to a recursive parse whose result becomes one term
\* (negated when an odd run of minus signs stood before the "("), and whose
\* error, if any, is returned unchanged as the result of the whole parse.
C29_BracketMatching == []C29_Inside /\ [][C29_Step]_vars

\* the outer bracket of (()) has just been closed at its second ")": the
\* inner text () went to the recursive parse and its error came back
C29_Witness ==
    /\ input = <<"(", "(", ")", ")">>
    /\ pos = 4
    /\ pc = "done"
    /\ state.st = "Brackets"
    /\ state.buffer = <<"(", ")">>
    /\ result = [k |-> "Err", error |-> "UnexpectedEof"]

\* the items of a flat token stream alternate between terms and operators
Alternating(flat) ==
    \A i \in 1..(Len(flat) - 1) : flat[i].k # flat[i + 1].k

\* every operator item of a flat token stream is one fold_flat knows
KnownOperators(flat) ==
    \A i \in 1..Len(flat) :
        flat[i].k = "Err" => flat[i].char \in {"+", "*", "/"}

\* C30: token-stream invariant: in the flat token stream of a successful
\* parse_to_flat the term items and the operator items strictly alternate,
\* the last item is a term, and every operator item is "+", "*" or "/" (a
\* binary minus is a "+" followed by a negated term), so that the unknown
\* operator branch of fold_flat is never taken.
C30_TokenStream ==
    pc = "flat" =>
        /\ outputs # <<>>
        /\ outputs[Len(outputs)].k = "Ok"
        /\ Alternating(outputs)
        /\ KnownOperators(outputs)

\* "8-8/2" has been read: a binary minus became "+" and a negated term
C30_Witness ==
    /\ pc = "flat"
    /\ input = <<"8", "-", "8", "/", "2">>
    /\ outputs = <<OkItem(Number(8)), ErrItem("+"),
                   OkItem(Negation(Number(8))), ErrItem("/"),
                   OkItem(Number(2))>>

====
